---- MODULE Spec2Model ----
(***************************************************************************)
(* Job Workflow Orchestrator of nvidia_tao_core: the scheduler loop        *)
(* (scan_for_jobs), Workflow.start / restart_threads, the cancel / pause   *)
(* handlers of JobHandler and the timeout check of workflow.py.            *)
(***************************************************************************)
EXTENDS Integers, Sequences, FiniteSets, TLC

\* ------------------------------------------------------------------ bounds
NumJobs == 2
NumCallers == 2
MaxDispatch == 2

Jobs == 1..NumJobs
Callers == 1..NumCallers

\* -------------------------------------------------------- program constants
\* JOB_STATUS_TIMEOUT_MINUTES, the global default of the timeout tracker
JOB_STATUS_TIMEOUT_MINUTES == 60
\* PrioritizedItem.priority default
DefaultPriority == 1

VARIABLES
    \* the jobs collection of the store, one document per job id
    workflow_status, status, priority, created_on, dependencies, action,
    automl, message,
    \* Workflow.start() callers and the threads they launch
    startPc, pendingJobs, automl_brain_restarted, loopPc, lock,
    \* locals of the tick that holds the lock
    queue, idx, jobs_to_dequeue, all_met,
    \* what the threads have done so far
    dispatched, attempted, reread, marked, abandoned, monitors, cleared,
    resumed, recovered, recoveries, launched,
    \* the job_cancel / job_pause call in progress
    req,
    \* a call of check_job_timeout: its inputs and its result
    probe,
    \* a pass of check_for_timed_out_jobs, the AutoML controller info of the
    \* store, and the calls made on the executor and the store in the pass
    tracker, controller_info, events,
    \* a job_retry call
    retry,
    \* an all_job_cancel call and the all_jobs_cancel_status of its handler
    bulk,
    \* the job_statuses records with auto-deletion requests and a pass of
    \* process_inference_microservice_auto_deletions over them
    autodel,
    \* a job_status_update / job_log_update call and the data saved so far
    callback

storeVars == <<workflow_status, status, priority, created_on, dependencies,
               action, automl, message>>
startVars == <<startPc, pendingJobs, automl_brain_restarted>>
loopVars == <<loopPc, lock>>
tickVars == <<queue, idx, jobs_to_dequeue, all_met>>
histVars == <<dispatched, attempted, reread, marked, abandoned, monitors,
              cleared, resumed, recovered, recoveries, launched>>
reqVars == <<req>>
probeVars == <<probe>>
trackVars == <<tracker, controller_info, events>>
retryVars == <<retry>>
bulkVars == <<bulk>>
autodelVars == <<autodel>>
callbackVars == <<callback>>
vars == <<storeVars, startVars, loopVars, tickVars, histVars, reqVars, probeVars,
          trackVars, retryVars, bulkVars, autodelVars, callbackVars>>

\* ------------------------------------------------------------ data model
\* Python's None where an integer may stand: no id, no age, no override
None == 0 - 1

JobStatuses == {"Pending", "Running", "Canceling", "Canceled", "Pausing",
                "Paused", "Resuming", "Done", "Error"}

\* Dependency(type, name)
Dep(t, n) == [type |-> t, name |-> n]

\* A message is the sequence of its words; `in` is word membership.
NoMessage == <<>>
ParentErrored(p) == <<"Parent job ", "errored out">>
ParentNotDone(p) == <<"Parent job ", "not done">>
GpuBusy == <<"gpu", "not available">>
Words(m) == {m[k] : k \in DOMAIN m}

\* dependencies.dependency_check_parent: met once the parent is Done,
\* "Parent job X errored out" when the parent is in Error.
dependency_check_parent(dep) ==
    LET ps == status[dep.name] IN
    IF ps = "Done" THEN [met |-> TRUE, message |-> NoMessage]
    ELSE IF ps = "Error" THEN [met |-> FALSE, message |-> ParentErrored(dep.name)]
    ELSE [met |-> FALSE, message |-> ParentNotDone(dep.name)]

\* dependencies.dependency_check_gpu: met when capacity is free right now.
dependency_check_gpu(free) ==
    IF free THEN [met |-> TRUE, message |-> NoMessage]
    ELSE [met |-> FALSE, message |-> GpuBusy]

\* dependencies.dependency_check_default: unknown kinds are met.
dependency_check_default == [met |-> TRUE, message |-> NoMessage]

\* workflow.dependency_check: dispatch on dependency.type
dependency_check(dep, free) ==
    IF dep.type = "parent_job" THEN dependency_check_parent(dep)
    ELSE IF dep.type = "gpu" THEN dependency_check_gpu(free)
    ELSE dependency_check_default

\* The mutant of LessThan: created_on is left out of the sort key.
LessThanPriorityOnly(a, b) == priority[a] < priority[b]

\* PrioritizedItem's generated __lt__: (priority, created_on) tuples.
LessThan(a, b) ==
    \/ priority[a] < priority[b]
    \/ priority[a] = priority[b] /\ created_on[a] < created_on[b]

\* list.sort(queue.queue): a stable sort by LessThan.
Insert(s, x) ==
    LET after == {k \in 1..Len(s) : ~LessThan(x, s[k])}
        n == IF after = {} THEN 0
             ELSE CHOOSE k \in after : \A m \in after : m <= k
    IN  SubSeq(s, 1, n) \o <<x>> \o SubSeq(s, n + 1, Len(s))

RECURSIVE SortJobs(_)
SortJobs(s) ==
    IF s = <<>> THEN <<>>
    ELSE Insert(SortJobs(SubSeq(s, 1, Len(s) - 1)), s[Len(s)])

\* the orders in which the store may return a set of documents
Orders(S) == {s \in [1..Cardinality(S) -> S] : \A a, b \in DOMAIN s : s[a] = s[b] => a = b}

\* get_all_queued_jobs: the documents with workflow_status enqueued
get_all_queued_jobs == {j \in Jobs : workflow_status[j] = "enqueued"}

\* still_exists: the persisted workflow_status is 'enqueued'
still_exists(j) == workflow_status[j] = "enqueued"

\* action -> action pipeline of the network config; "" when there is none
ActionPipeline(a) == IF a \in {"train", "evaluate"} THEN "pipeline" ELSE ""

\* a job_cancel / job_pause call: where it is, the job_metadata it read, the
\* Code it returned (0: none yet), and the status writes and stop calls
\* (delete_statefulset, AutoMLHandler.stop) it has made
NoRequest == [pc |-> "idle", job |-> 0, op |-> "", job_status |-> "",
              code |-> 0, response |-> 0, writes |-> 0, stops |-> 0]

\* a check_job_timeout call: the job_info, what the store holds for the job,
\* and the value returned ("none": not called yet)
NoProbe == [job_info |-> [job_id |-> None, is_automl |-> FALSE,
                          timeout_minutes |-> None],
            cur_status |-> "absent", exp_status |-> "absent",
            status_age |-> None, modified_age |-> None, result |-> "none"]

\* a pass of check_for_timed_out_jobs: where it is, all_jobs_to_check, the
\* job_infos still to process (the first is the one in hand), what became of
\* those processed, and terminated_jobs
NoPass == [pc |-> "idle", infos |-> <<>>, todo |-> <<>>, checked |-> <<>>,
           terminated |-> <<>>]

\* a job_retry call: the source job, the Code returned (0: none yet) and the
\* id of the job created (0: none)
\* an all_job_cancel call: where it is, the handler lists still to visit
\* (each the ids of its jobs), the job a job_cancel is issued for, the locals
\* cancel_success and jobs_cancel_sucess, whether the call has written
\* "Canceling", the job_cancel calls issued and those answered with a code
\* other than 200, the Code returned (0: none yet); and the
\* all_jobs_cancel_status of the handler's metadata ("none": never set)
NoBulk == [pc |-> "idle", groups |-> <<>>, job |-> 0, cancel_success |-> TRUE,
           jobs_cancel_sucess |-> TRUE, marked |-> FALSE, issued |-> 0,
           non200 |-> 0, code |-> 0, all_jobs_cancel_status |-> "none"]

\* the AUTO_DELETION_REQUESTED entries of each job's job_statuses record
\* ("none": no entry, "requested": an entry not marked auto_deletion_processed,
\* "processed": every entry marked, "gone": the record was removed), and a
\* pass of process_inference_microservice_auto_deletions: where it is, the
\* jobs_to_delete still to do, whether the inner except clause is running,
\* the stop_inference_microservice calls made so far for each job
NoAutodel == [pc |-> "idle", requests |-> [j \in Jobs |-> "none"],
              jobs_to_delete |-> <<>>, in_except |-> FALSE,
              stop_calls |-> [j \in Jobs |-> 0]]

\* a job_status_update / job_log_update call: its arguments, the Code it
\* returned (0: none yet; "raised": an exception left the handler), and the
\* number of callback_data saved for each job, as status and as log
NoCallback == [pc |-> "idle", job |-> 0, kind |-> "", code |-> 0,
               saved_status |-> [j \in Jobs |-> 0],
               saved_log |-> [j \in Jobs |-> 0]]

NoRetry == [pc |-> "idle", job |-> 0, job_status |-> "", code |-> 0, new |-> 0]

\* ------------------------------------------------------------------ Init
\* an empty store, no thread started, no call in progress
InitProgram ==
    /\ workflow_status = [j \in Jobs |-> "absent"]
    /\ status = [j \in Jobs |-> "absent"]
    /\ priority = [j \in Jobs |-> DefaultPriority]
    /\ created_on = [j \in Jobs |-> 0]
    /\ dependencies = [j \in Jobs |-> <<>>]
    /\ action = [j \in Jobs |-> ""]
    /\ automl = [j \in Jobs |-> FALSE]
    /\ message = [j \in Jobs |-> NoMessage]
    /\ startPc = [c \in Callers |-> "idle"]
    /\ pendingJobs = [c \in Callers |-> {}]
    /\ automl_brain_restarted = [c \in Callers |-> FALSE]
    /\ loopPc = [c \in Callers |-> "none"]
    /\ lock = 0
    /\ queue = <<>>
    /\ idx = 0
    /\ jobs_to_dequeue = <<>>
    /\ all_met = FALSE
    /\ dispatched = [j \in Jobs |-> 0]
    /\ attempted = <<>>
    /\ reread = ""
    /\ marked = {}
    /\ abandoned = {}
    /\ recovered = {}
    /\ monitors = [j \in Jobs |-> 0]
    /\ cleared = [j \in Jobs |-> 0]
    /\ resumed = 0
    /\ recoveries = 0
    /\ launched = 0
    /\ req = NoRequest
    /\ retry = NoRetry
    /\ bulk = NoBulk
    /\ autodel = NoAutodel
    /\ callback = NoCallback

\* ... and no timeout pass in progress, no AutoML controller info
InitTracker ==
    /\ tracker = NoPass
    /\ controller_info = [j \in Jobs |-> <<>>]
    /\ events = <<>>

Init == InitProgram /\ InitTracker /\ probe = NoProbe

\* --------------------------------------------------------------- job_run
\* JobHandler.job_run -> create_job_context, on_new_job -> Workflow.enqueue:
\* a new document, status Pending, workflow_status enqueued.
JobRun(j, p, c, deps, act, aml) ==
    /\ status[j] = "absent"
    /\ \A k \in Jobs : k < j => status[k] # "absent"
    /\ \A k \in DOMAIN deps : deps[k].type = "parent_job" => status[deps[k].name] # "absent"
    /\ workflow_status' = [workflow_status EXCEPT ![j] = "enqueued"]
    /\ status' = [status EXCEPT ![j] = "Pending"]
    /\ priority' = [priority EXCEPT ![j] = p]
    /\ created_on' = [created_on EXCEPT ![j] = c]
    /\ dependencies' = [dependencies EXCEPT ![j] = deps]
    /\ action' = [action EXCEPT ![j] = act]
    /\ automl' = [automl EXCEPT ![j] = aml]
    /\ UNCHANGED <<message, startVars, loopVars, tickVars, histVars, reqVars, probeVars, trackVars, retryVars, bulkVars, autodelVars, callbackVars>>

\* ActionPipeline.run of a dispatched or re-monitored job: Pending -> Running
JobStarts(j) ==
    /\ status[j] = "Pending"
    /\ dispatched[j] + monitors[j] > 0
    /\ status' = [status EXCEPT ![j] = "Running"]
    /\ UNCHANGED <<workflow_status, priority, created_on, dependencies, action,
                   automl, message, startVars, loopVars, tickVars, histVars, reqVars, probeVars, trackVars, retryVars, bulkVars, autodelVars, callbackVars>>

\* ... and Running -> Done | Error
JobEnds(j, s) ==
    /\ status[j] = "Running"
    /\ s \in {"Done", "Error"}
    /\ status' = [status EXCEPT ![j] = s]
    /\ UNCHANGED <<workflow_status, priority, created_on, dependencies, action,
                   automl, message, startVars, loopVars, tickVars, histVars, reqVars, probeVars, trackVars, retryVars, bulkVars, autodelVars, callbackVars>>

\* ------------------------------------------------------ Workflow.dequeue
Dequeued(ws, j) == [ws EXCEPT ![j] = "dequeued"]

\* --------------------------------------------------------- scan_for_jobs
\* a started thread that has not ended: what threading.enumerate() lists
Alive(c) == loopPc[c] \notin {"none", "dead"}

\* @synchronized scan_for_jobs: the thread enters once the lock is free
LoopAcquire(c) ==
    /\ loopPc[c] = "blocked"
    /\ lock = 0
    /\ lock' = c
    /\ loopPc' = [loopPc EXCEPT ![c] = "load"]
    /\ UNCHANGED <<storeVars, startVars, tickVars, histVars, reqVars, probeVars, trackVars, retryVars, bulkVars, autodelVars, callbackVars>>

\* the index of the next job, or the batch of removals after the last one
NextPc(i, q) == IF i > Len(q) THEN "dequeue" ELSE "deps"

\* top of the loop body: heartbeat, build the queue, list.sort(queue.queue)
TickLoad(c) ==
    /\ loopPc[c] = "load"
    /\ lock = c
    /\ \A j \in Jobs : dispatched[j] < MaxDispatch
    /\ \E order \in Orders(get_all_queued_jobs) :
          /\ queue' = SortJobs(order)
          /\ loopPc' = [loopPc EXCEPT ![c] = NextPc(1, SortJobs(order))]
    /\ idx' = 1
    /\ jobs_to_dequeue' = <<>>
    /\ all_met' = FALSE
    /\ attempted' = <<>>
    /\ reread' = ""
    /\ marked' = {}
    /\ UNCHANGED <<storeVars, startVars, lock, dispatched, abandoned, monitors,
                   cleared, resumed, recovered, recoveries, launched, reqVars,
                   probeVars, trackVars, retryVars, bulkVars, autodelVars, callbackVars>>

\* the mutant of IsParentErrored: the short-circuit signal is never seen
IsParentErroredNever(m) == FALSE

\* "Parent job " in message and "errored out" in message
IsParentErrored(m) == "Parent job " \in Words(m) /\ "errored out" \in Words(m)

\* the dependency loop of one job, from dependency k on, with its break
RECURSIVE EvalDeps(_, _, _, _)
EvalDeps(deps, k, free, acc) ==
    IF k > Len(deps) THEN acc
    ELSE LET r == dependency_check(deps[k], free)
             a1 == IF r.met THEN acc
                   ELSE [acc EXCEPT !.all_met = FALSE,
                                    !.reasons = Append(acc.reasons, r.message)]
         IN  IF IsParentErrored(r.message)
             THEN [a1 EXCEPT !.dequeue = TRUE]
             ELSE EvalDeps(deps, k + 1, free, a1)

DepsResult(j, free) ==
    EvalDeps(dependencies[j], 1, free,
             [all_met |-> TRUE, reasons |-> <<>>, dequeue |-> FALSE])

\* the mutant of ScanDeps: a job whose dependencies are unmet ends the scan
ScanDepsBlocking(c) ==
    /\ loopPc[c] = "deps"
    /\ lock = c
    /\ \E free \in BOOLEAN :
         LET job == queue[idx]
             r == DepsResult(job, free)
         IN  /\ message' = [message EXCEPT ![job] = r.reasons]
             /\ all_met' = r.all_met
             /\ jobs_to_dequeue' = IF r.dequeue THEN Append(jobs_to_dequeue, job)
                                   ELSE jobs_to_dequeue
             /\ marked' = IF r.dequeue THEN marked \cup {job} ELSE marked
             /\ abandoned' = IF r.dequeue THEN abandoned \cup {job} ELSE abandoned
             /\ IF r.all_met
                THEN /\ loopPc' = [loopPc EXCEPT ![c] = "exists"]
                     /\ idx' = idx
                ELSE /\ loopPc' = [loopPc EXCEPT ![c] = "dequeue"]
                     /\ idx' = idx + 1
    /\ UNCHANGED <<workflow_status, status, priority, created_on, dependencies,
                   action, automl, startVars, lock, queue, dispatched, attempted,
                   reread, monitors, cleared, resumed, recovered, recoveries,
                   launched, reqVars, probeVars, trackVars, retryVars, bulkVars,
                   autodelVars, callbackVars>>

\* dependency evaluation and update_job_message of queue[idx]
ScanDeps(c) ==
    /\ loopPc[c] = "deps"
    /\ lock = c
    /\ \E free \in BOOLEAN :
         LET job == queue[idx]
             r == DepsResult(job, free)
         IN  /\ message' = [message EXCEPT ![job] = r.reasons]
             /\ all_met' = r.all_met
             /\ jobs_to_dequeue' = IF r.dequeue THEN Append(jobs_to_dequeue, job)
                                   ELSE jobs_to_dequeue
             /\ marked' = IF r.dequeue THEN marked \cup {job} ELSE marked
             /\ abandoned' = IF r.dequeue THEN abandoned \cup {job} ELSE abandoned
             /\ IF r.all_met
                THEN /\ loopPc' = [loopPc EXCEPT ![c] = "exists"]
                     /\ idx' = idx
                ELSE /\ loopPc' = [loopPc EXCEPT ![c] = NextPc(idx + 1, queue)]
                     /\ idx' = idx + 1
    /\ UNCHANGED <<workflow_status, status, priority, created_on, dependencies,
                   action, automl, startVars, lock, queue, dispatched, attempted,
                   reread, monitors, cleared, resumed, recovered, recoveries,
                   launched, reqVars, probeVars, trackVars, retryVars, bulkVars, autodelVars, callbackVars>>

\* the mutant of DispatchGuard: the still-enqueued re-read is dropped
DispatchGuardNoReread(j) == all_met

\* `if all_met and still_exists(job)`
DispatchGuard(j) == all_met /\ still_exists(j)

\* the still_exists re-read of queue[idx]
ScanStillExists(c) ==
    /\ loopPc[c] = "exists"
    /\ lock = c
    /\ LET job == queue[idx] IN
       /\ reread' = workflow_status[job]
       /\ IF DispatchGuard(job)
          THEN /\ loopPc' = [loopPc EXCEPT ![c] = "exec"]
               /\ idx' = idx
          ELSE /\ loopPc' = [loopPc EXCEPT ![c] = NextPc(idx + 1, queue)]
               /\ idx' = idx + 1
    /\ UNCHANGED <<storeVars, startVars, lock, queue, jobs_to_dequeue, all_met,
                   dispatched, attempted, marked, abandoned, monitors, cleared,
                   resumed, recovered, recoveries, launched, reqVars, probeVars, trackVars, retryVars, bulkVars, autodelVars, callbackVars>>

\* the mutant of execute_job: a job without action pipeline counts as started
execute_job_always(j) == TRUE

\* execute_job: TRUE when a job thread was started
execute_job(j) ==
    IF \E k \in DOMAIN dependencies[j] : dependencies[j][k].type = "automl"
    THEN TRUE
    ELSE ActionPipeline(action[j]) # ""

\* the mutant of ScanExecute: the removal is applied at once, inside the scan
ScanExecuteEager(c) ==
    /\ loopPc[c] = "exec"
    /\ lock = c
    /\ LET job == queue[idx] IN
       /\ attempted' = Append(attempted, job)
       /\ IF execute_job(job)
          THEN /\ dispatched' = [dispatched EXCEPT ![job] = @ + 1]
               /\ workflow_status' = Dequeued(workflow_status, job)
          ELSE UNCHANGED <<dispatched, workflow_status>>
    /\ idx' = idx + 1
    /\ loopPc' = [loopPc EXCEPT ![c] = NextPc(idx + 1, queue)]
    /\ UNCHANGED <<status, priority, created_on, dependencies, action, automl,
                   message, startVars, lock, queue, jobs_to_dequeue, all_met,
                   reread, marked, abandoned, monitors, cleared, resumed,
                   recovered, recoveries, launched, reqVars, probeVars,
                   trackVars, retryVars, bulkVars, autodelVars, callbackVars>>

\* execute_job(queue[idx]) and, on success, jobs_to_dequeue.append(job)
ScanExecute(c) ==
    /\ loopPc[c] = "exec"
    /\ lock = c
    /\ LET job == queue[idx] IN
       /\ attempted' = Append(attempted, job)
       /\ IF execute_job(job)
          THEN /\ dispatched' = [dispatched EXCEPT ![job] = @ + 1]
               /\ jobs_to_dequeue' = Append(jobs_to_dequeue, job)
          ELSE UNCHANGED <<dispatched, jobs_to_dequeue>>
    /\ idx' = idx + 1
    /\ loopPc' = [loopPc EXCEPT ![c] = NextPc(idx + 1, queue)]
    /\ UNCHANGED <<storeVars, startVars, lock, queue, all_met, reread, marked,
                   abandoned, monitors, cleared, resumed, recovered, recoveries,
                   launched, reqVars, probeVars, trackVars, retryVars, bulkVars, autodelVars, callbackVars>>

\* the mutant of ScanDequeue: a job removed for its parent's error is failed
ScanDequeueFailing(c) ==
    /\ loopPc[c] = "dequeue"
    /\ lock = c
    /\ jobs_to_dequeue # <<>>
    /\ workflow_status' = Dequeued(workflow_status, Head(jobs_to_dequeue))
    /\ status' = IF Head(jobs_to_dequeue) \in marked
                 THEN [status EXCEPT ![Head(jobs_to_dequeue)] = "Error"]
                 ELSE status
    /\ jobs_to_dequeue' = Tail(jobs_to_dequeue)
    /\ UNCHANGED <<priority, created_on, dependencies, action, automl,
                   message, startVars, loopVars, queue, idx, all_met, histVars,
                   reqVars, probeVars, trackVars, retryVars, bulkVars, autodelVars, callbackVars>>

\* `for job in jobs_to_dequeue: Workflow.dequeue(job)`, one write per step
ScanDequeue(c) ==
    /\ loopPc[c] = "dequeue"
    /\ lock = c
    /\ jobs_to_dequeue # <<>>
    /\ workflow_status' = Dequeued(workflow_status, Head(jobs_to_dequeue))
    /\ jobs_to_dequeue' = Tail(jobs_to_dequeue)
    /\ UNCHANGED <<status, priority, created_on, dependencies, action, automl,
                   message, startVars, loopVars, queue, idx, all_met, histVars, reqVars, probeVars, trackVars, retryVars, bulkVars, autodelVars, callbackVars>>

\* an exception raised by a store or adapter call of the scan: nothing in
\* scan_for_jobs catches it, the thread ends and the `with lock` releases
ScanRaise(c) ==
    /\ loopPc[c] \in {"load", "deps", "exists", "exec", "dequeue"}
    /\ lock = c
    /\ loopPc' = [loopPc EXCEPT ![c] = "dead"]
    /\ lock' = 0
    /\ queue' = <<>>
    /\ idx' = 0
    /\ jobs_to_dequeue' = <<>>
    /\ all_met' = FALSE
    /\ attempted' = <<>>
    /\ reread' = ""
    /\ marked' = {}
    /\ UNCHANGED <<storeVars, startVars, dispatched, abandoned, monitors, cleared,
                   resumed, recovered, recoveries, launched, reqVars, probeVars, trackVars, retryVars, bulkVars, autodelVars, callbackVars>>

\* ------------------------------------------------------- timeout tracker
\* `time_since_update.total_seconds() > timeout_seconds`
TimedOut(elapsed, timeout_seconds) == elapsed > timeout_seconds

\* the mutant of check_job_timeout: the status of the job is not looked at
check_job_timeout_any_status(job_info, cur_status, exp_status, status_age, modified_age) ==
    IF job_info.job_id = None THEN FALSE
    ELSE LET timeout_seconds == JOB_STATUS_TIMEOUT_MINUTES * 60
             last == IF status_age # None THEN status_age ELSE modified_age
         IN  IF last = None THEN FALSE
             ELSE TimedOut(last, timeout_seconds)

\* check_job_timeout(job_info): cur_status is the status of the job's
\* metadata ("absent": no metadata), exp_status the status of the
\* recommendation in the controller info ("absent": not found), status_age
\* the age in seconds of the newest status-history timestamp and
\* modified_age that of last_modified (None: there is none).
check_job_timeout(job_info, cur_status, exp_status, status_age, modified_age) ==
    IF job_info.job_id = None THEN FALSE
    ELSE IF job_info.is_automl /\ exp_status \notin {"pending", "running", "started"}
    THEN FALSE
    ELSE IF ~job_info.is_automl /\ cur_status \notin {"Running", "Pending"}
    THEN FALSE
    ELSE LET timeout_seconds == JOB_STATUS_TIMEOUT_MINUTES * 60
             last == IF status_age # None THEN status_age ELSE modified_age
         IN  IF last = None THEN FALSE
             ELSE TimedOut(last, timeout_seconds)

\* get_all_running_jobs: the job_info of every job in a running-like state
get_all_running_jobs == {j \in Jobs : status[j] \in {"Running", "Pending"}}

JobInfo(j) == [job_id |-> j, is_automl |-> FALSE, timeout_minutes |-> None]

\* the ages the tracker may find when it runs: fresh, or one second too old
TickAges == {0, JOB_STATUS_TIMEOUT_MINUTES * 60 + 1}

\* end of the tick: check_for_timed_out_jobs (terminate_timed_out_job sets
\* every timed-out job to Error), the heartbeat and the sleep
TickTimeout(c) ==
    /\ loopPc[c] = "dequeue"
    /\ lock = c
    /\ jobs_to_dequeue = <<>>
    /\ \E age \in [Jobs -> TickAges] :
         status' = [j \in Jobs |->
                      IF /\ j \in get_all_running_jobs
                         /\ check_job_timeout(JobInfo(j), status[j], "absent", age[j], None)
                      THEN "Error" ELSE status[j]]
    /\ loopPc' = [loopPc EXCEPT ![c] = "load"]
    /\ queue' = <<>>
    /\ idx' = 0
    /\ all_met' = FALSE
    /\ attempted' = <<>>
    /\ reread' = ""
    /\ marked' = {}
    /\ UNCHANGED <<workflow_status, priority, created_on, dependencies, action,
                   automl, message, startVars, lock, jobs_to_dequeue, dispatched,
                   abandoned, monitors, cleared, resumed, recovered, recoveries,
                   launched, reqVars, probeVars, trackVars, retryVars, bulkVars, autodelVars, callbackVars>>

\* ------------------------------------------------- Workflow.start, recovery
\* get_all_pending_jobs: the jobs whose status asks for a live monitor
get_all_pending_jobs == {j \in Jobs : status[j] \in {"Pending", "Running"}}

\* Workflow.start: the scan of threading.enumerate(), then the first line of
\* restart_threads
StartCheck(c) ==
    /\ startPc[c] = "idle"
    /\ IF \E t \in Callers : Alive(t)
       THEN /\ startPc' = [startPc EXCEPT ![c] = "false"]
            /\ UNCHANGED <<pendingJobs, automl_brain_restarted, recoveries>>
       ELSE /\ startPc' = [startPc EXCEPT ![c] = "recover"]
            /\ pendingJobs' = [pendingJobs EXCEPT ![c] = get_all_pending_jobs]
            /\ automl_brain_restarted' = [automl_brain_restarted EXCEPT ![c] = FALSE]
            /\ recoveries' = recoveries + 1
    /\ UNCHANGED <<storeVars, loopVars, tickVars, dispatched, attempted, reread,
                   marked, abandoned, monitors, cleared, resumed, recovered,
                   launched, reqVars, probeVars, trackVars, retryVars, bulkVars, autodelVars, callbackVars>>

\* the mutant of RecoverySkips: every pending job is recovered
RecoverySkipsNone(j) == FALSE

\* `if still_exists(job_context): continue`
RecoverySkips(j) == still_exists(j)

\* the recommendations whose monitor is restarted: status pending, running or
\* started and an id that is set
StaleRecommendations(ci) ==
    {k \in DOMAIN ci : ci[k].status \in {"pending", "running", "started"} /\ ci[k].id # 0}

\* the mutant of ResumeNeeded: the guard is dropped
ResumeAlways(c) == TRUE

\* `if not automl_brain_restarted`
ResumeNeeded(c) == ~automl_brain_restarted[c]

\* one iteration of restart_threads' loop, for a job whose handler is found
RecoverJob(c, j) ==
    /\ startPc[c] = "recover"
    /\ j \in pendingJobs[c]
    /\ pendingJobs' = [pendingJobs EXCEPT ![c] = @ \ {j}]
    /\ recovered' = recovered \cup {j}
    /\ IF RecoverySkips(j)
       THEN UNCHANGED <<monitors, cleared, resumed, automl_brain_restarted>>
       ELSE IF ~automl[j]
       THEN \* delete_dnn_status, then the monitor thread if a pipeline exists
            /\ cleared' = [cleared EXCEPT ![j] = @ + 1]
            /\ monitors' = [monitors EXCEPT ![j] =
                               IF ActionPipeline(action[j]) # "" THEN @ + 1 ELSE @]
            /\ UNCHANGED <<resumed, automl_brain_restarted>>
       ELSE \* handler_metadata of kind + "s" found or not; AutoMLHandler.resume
            \* behind the guard, then a monitor per stale recommendation
            /\ \E found \in BOOLEAN :
                  IF found
                  THEN /\ resumed' = IF ResumeNeeded(c) THEN resumed + 1 ELSE resumed
                       /\ automl_brain_restarted' =
                             [automl_brain_restarted EXCEPT ![c] = TRUE]
                       /\ monitors' = [monitors EXCEPT ![j] =
                             @ + Cardinality(StaleRecommendations(controller_info[j]))]
                  ELSE UNCHANGED <<resumed, automl_brain_restarted, monitors>>
            /\ UNCHANGED cleared
    /\ UNCHANGED <<storeVars, startPc, loopVars, tickVars, dispatched, attempted,
                   reread, marked, abandoned, recoveries, launched, reqVars,
                   probeVars, trackVars, retryVars, bulkVars, autodelVars, callbackVars>>

\* restart_threads' `continue` for a job whose handler cannot be found
RecoverSkipMalformed(c, j) ==
    /\ startPc[c] = "recover"
    /\ j \in pendingJobs[c]
    /\ pendingJobs' = [pendingJobs EXCEPT ![c] = @ \ {j}]
    /\ UNCHANGED <<storeVars, startPc, automl_brain_restarted, loopVars, tickVars,
                   histVars, reqVars, probeVars, trackVars, retryVars, bulkVars, autodelVars, callbackVars>>

\* Workflow.start: the WorkflowThreadTAO thread is started, start returns True
StartLaunch(c) ==
    /\ startPc[c] = "recover"
    /\ pendingJobs[c] = {}
    /\ startPc' = [startPc EXCEPT ![c] = "true"]
    /\ loopPc' = [loopPc EXCEPT ![c] = "blocked"]
    /\ launched' = launched + 1
    /\ UNCHANGED <<storeVars, pendingJobs, automl_brain_restarted, lock, tickVars,
                   dispatched, attempted, reread, marked, abandoned, monitors,
                   cleared, resumed, recovered, recoveries, reqVars, probeVars, trackVars, retryVars, bulkVars, autodelVars, callbackVars>>

\* ------------------------------------------------- job_cancel, job_pause
\* the statuses for which cancel and pause are a no-op
NoOpStatuses == {"Error", "Done", "Canceled", "Canceling", "Pausing", "Paused"}
PausableActions == {"train", "distill", "quantize", "retrain"}
Ops == {"cancel", "pause"}
Marking(op) == IF op = "cancel" THEN "Canceling" ELSE "Pausing"
Final(op) == IF op = "cancel" THEN "Canceled" ELSE "Paused"

\* is_request_automl(handler_id, action, kind)
is_request_automl(j) == automl[j]

\* the branch job_cancel / job_pause take on the job_metadata they read
Branch(op, j) ==
    IF is_request_automl(j) THEN "automl_mark"
    ELSE IF op = "pause" /\ action[j] \notin PausableActions THEN "return404"
    ELSE IF status[j] \in NoOpStatuses THEN "return200"
    ELSE IF status[j] = "Pending" THEN "pending_mark"
    ELSE IF status[j] = "Running" THEN "running_mark"
    ELSE "return404"

Returned(r, code) == [r EXCEPT !.pc = "returned", !.code = code]

\* entry of job_cancel / job_pause up to the branch on action and status
ReqBegin(j, op) ==
    /\ req.pc = "idle"
    /\ status[j] # "absent"
    /\ LET b == Branch(op, j)
           r == [NoRequest EXCEPT !.job = j, !.op = op, !.job_status = status[j]]
       IN  req' = IF b = "return200" THEN Returned(r, 200)
                  ELSE IF b = "return404" THEN Returned(r, 404)
                  ELSE [r EXCEPT !.pc = b]
    /\ UNCHANGED <<storeVars, startVars, loopVars, tickVars, histVars, probeVars, trackVars, retryVars, bulkVars, autodelVars, callbackVars>>

\* update_job_status(..., status="Canceling" | "Pausing")
ReqMark ==
    /\ req.pc \in {"automl_mark", "pending_mark", "running_mark"}
    /\ status' = [status EXCEPT ![req.job] = Marking(req.op)]
    /\ req' = [req EXCEPT !.writes = @ + 1,
                          !.pc = CASE req.pc = "automl_mark" -> "automl_stop"
                                   [] req.pc = "pending_mark" -> "pending_delete"
                                   [] req.pc = "running_mark" -> "running_stop"]
    /\ UNCHANGED <<workflow_status, priority, created_on, dependencies, action,
                   automl, message, startVars, loopVars, tickVars, histVars, probeVars, trackVars, retryVars, bulkVars, autodelVars, callbackVars>>

\* AutoMLHandler.stop(user_id, org_name, handler_id, job_id)
ReqAutomlStop(code) ==
    /\ req.pc = "automl_stop"
    /\ req' = [req EXCEPT !.stops = @ + 1, !.response = code,
                          !.pc = "automl_purge"]
    /\ UNCHANGED <<storeVars, startVars, loopVars, tickVars, histVars, probeVars, trackVars, retryVars, bulkVars, autodelVars, callbackVars>>

\* the mutant of ReqAutomlPurge: a failing purge fails the call
ReqAutomlPurgeFatal(raises) ==
    /\ req.pc = "automl_purge"
    /\ IF raises
       THEN /\ req' = Returned(req, 404)
            /\ UNCHANGED workflow_status
       ELSE /\ req' = [req EXCEPT !.pc = "automl_final"]
            /\ workflow_status' =
                 IF workflow_status[req.job] = "enqueued"
                 THEN Dequeued(workflow_status, req.job) ELSE workflow_status
    /\ UNCHANGED <<status, priority, created_on, dependencies, action, automl,
                   message, startVars, loopVars, tickVars, histVars, probeVars, trackVars, retryVars, bulkVars, autodelVars, callbackVars>>

\* on_delete_automl_job(job_id): the queued recommendations are dequeued; when
\* it raises, the handler returns 200 at once
ReqAutomlPurge(raises) ==
    /\ req.pc = "automl_purge"
    /\ IF raises
       THEN /\ req' = Returned(req, 200)
            /\ UNCHANGED workflow_status
       ELSE /\ req' = [req EXCEPT !.pc = "automl_final"]
            /\ workflow_status' =
                 IF workflow_status[req.job] = "enqueued"
                 THEN Dequeued(workflow_status, req.job) ELSE workflow_status
    /\ UNCHANGED <<status, priority, created_on, dependencies, action, automl,
                   message, startVars, loopVars, tickVars, histVars, probeVars, trackVars, retryVars, bulkVars, autodelVars, callbackVars>>

\* the mutant of ReqPendingDelete: the job is left in the scheduler queue
ReqPendingKeep ==
    /\ req.pc = "pending_delete"
    /\ req' = [req EXCEPT !.pc = "pending_stop"]
    /\ UNCHANGED <<storeVars, startVars, loopVars, tickVars, histVars, probeVars,
                   trackVars, retryVars, bulkVars, autodelVars, callbackVars>>

\* on_delete_job(job_id): the job leaves the scheduler queue
ReqPendingDelete ==
    /\ req.pc = "pending_delete"
    /\ workflow_status' = Dequeued(workflow_status, req.job)
    /\ req' = [req EXCEPT !.pc = "pending_stop"]
    /\ UNCHANGED <<status, priority, created_on, dependencies, action, automl,
                   message, startVars, loopVars, tickVars, histVars, probeVars, trackVars, retryVars, bulkVars, autodelVars, callbackVars>>

\* StatefulSetExecutor().delete_statefulset(job_id, use_ngc=use_ngc)
ReqStop ==
    /\ req.pc \in {"pending_stop", "running_stop"}
    /\ req' = [req EXCEPT !.stops = @ + 1,
                          !.pc = IF req.pc = "pending_stop" THEN "pending_final"
                                 ELSE "running_poll"]
    /\ UNCHANGED <<storeVars, startVars, loopVars, tickVars, histVars, probeVars, trackVars, retryVars, bulkVars, autodelVars, callbackVars>>

K8sStatuses == {"Done", "Error", "Running", "Pending", "NotFound"}

\* JobExecutor().get_job_status and the `while k8s_status in (...)` loop: it
\* ends on Done, Error or a status outside the four, and polls again otherwise
ReqPoll(k8s_status) ==
    /\ req.pc = "running_poll"
    /\ req' = IF k8s_status \in {"Running", "Pending"} THEN req
              ELSE [req EXCEPT !.pc = "running_final"]
    /\ UNCHANGED <<storeVars, startVars, loopVars, tickVars, histVars, probeVars, trackVars, retryVars, bulkVars, autodelVars, callbackVars>>

\* update_job_status(..., status="Canceled" | "Paused") and the return
ReqFinal ==
    /\ req.pc \in {"automl_final", "pending_final", "running_final"}
    /\ status' = [status EXCEPT ![req.job] = Final(req.op)]
    /\ req' = [Returned(req, IF req.pc = "automl_final" THEN req.response ELSE 200)
                 EXCEPT !.writes = @ + 1]
    /\ UNCHANGED <<workflow_status, priority, created_on, dependencies, action,
                   automl, message, startVars, loopVars, tickVars, histVars, probeVars, trackVars, retryVars, bulkVars, autodelVars, callbackVars>>

\* the caller has its answer: the next call may come
ReqEnd ==
    /\ req.pc \in {"returned", "raised"}
    /\ req' = NoRequest
    /\ UNCHANGED <<storeVars, startVars, loopVars, tickVars, histVars, probeVars, trackVars, retryVars, bulkVars, autodelVars, callbackVars>>

\* an exception of a store or executor call: caught in the Running branch
\* (Code 404), raised to the caller everywhere else
ReqRaise ==
    /\ req.pc \notin {"idle", "returned", "raised", "automl_purge"}
    /\ req' = IF req.pc \in {"running_mark", "running_stop", "running_poll",
                             "running_final"}
              THEN Returned(req, 404)
              ELSE [req EXCEPT !.pc = "raised"]
    /\ UNCHANGED <<storeVars, startVars, loopVars, tickVars, histVars, probeVars, trackVars, retryVars, bulkVars, autodelVars, callbackVars>>

\* ------------------------------------- check_for_timed_out_jobs, terminate
\* the job_info of a running regular job (handler_id None: an orphaned job)
RegularInfo(j, h) ==
    [job_id |-> j, handler_id |-> h, is_automl |-> FALSE,
     experiment_number |-> 0, timeout_minutes |-> None]

\* the job_info of a running recommendation of an AutoML job
AutomlInfo(j, e) ==
    [job_id |-> j, handler_id |-> j, is_automl |-> TRUE,
     experiment_number |-> e, timeout_minutes |-> None]

\* get_all_running_automl_experiments: one job_info per recommendation that is
\* pending, running or started, in the order of the controller info
RECURSIVE RunningExperiments(_, _)
RunningExperiments(j, k) ==
    IF k > Len(controller_info[j]) THEN <<>>
    ELSE (IF controller_info[j][k].status \in {"pending", "running", "started"}
          THEN <<AutomlInfo(j, controller_info[j][k].id)>> ELSE <<>>)
         \o RunningExperiments(j, k + 1)

RECURSIVE get_all_running_automl_experiments(_)
get_all_running_automl_experiments(j) ==
    IF j > NumJobs THEN <<>>
    ELSE (IF automl[j] THEN RunningExperiments(j, 1) ELSE <<>>)
         \o get_all_running_automl_experiments(j + 1)

\* running_jobs as a list, by job id; the jobs of `orphans` have no handler_id
RECURSIVE RunningJobInfos(_, _)
RunningJobInfos(j, orphans) ==
    IF j > NumJobs THEN <<>>
    ELSE (IF j \in get_all_running_jobs /\ ~automl[j]
          THEN <<RegularInfo(j, IF j \in orphans THEN None ELSE j)>> ELSE <<>>)
         \o RunningJobInfos(j + 1, orphans)

\* the status of recommendation e in the controller info ci ("absent": none)
ExperimentStatus(ci, e) ==
    IF \E k \in DOMAIN ci : ci[k].id = e
    THEN ci[CHOOSE k \in DOMAIN ci : ci[k].id = e /\ \A m \in DOMAIN ci : ci[m].id = e => k <= m].status
    ELSE "absent"

TimeoutMessage == "Terminated due to timeout - no status updates received"

\* the mutant of MarkTimedOut: every recommendation of the job is marked
MarkTimedOutAll(ci, e) ==
    [k \in DOMAIN ci |-> [ci[k] EXCEPT !.status = "error", !.message = TimeoutMessage]]

\* updated_controller of terminate_timed_out_job
MarkTimedOut(ci, e) ==
    [k \in DOMAIN ci |->
        IF ci[k].id = e
        THEN [ci[k] EXCEPT !.status = "error", !.message = TimeoutMessage]
        ELSE ci[k]]

\* what the calls of one terminate_timed_out_job come to
StatusWrite(j, v) == [op |-> "status", job |-> j, exp |-> 0, value |-> v, ok |-> TRUE]
ControllerSave(j, e) == [op |-> "save", job |-> j, exp |-> e, value |-> "", ok |-> TRUE]
Stop(j, e, ok) == [op |-> "stop", job |-> j, exp |-> e, value |-> "", ok |-> ok]

RegularOutcomes == {"import_raises", "write_raises", "stop_true", "stop_false", "stop_raises"}
AutomlOutcomes == {"import_raises", "read_raises", "stop_true", "fallback_true",
                   "fallback_false", "stop_raises"}

\* the mutant of terminate_regular: a failed stop takes the status write back
terminate_regular_rollback(job_info, outcome) ==
    IF job_info.handler_id = None \/ outcome \in {"import_raises", "write_raises"}
    THEN [written |-> FALSE, calls |-> <<>>, result |-> FALSE,
          raised |-> outcome = "import_raises"]
    ELSE [written |-> outcome = "stop_true",
          calls |-> <<StatusWrite(job_info.job_id, "Error"),
                      Stop(job_info.job_id, 0, outcome = "stop_true")>>,
          result |-> outcome = "stop_true", raised |-> FALSE]

\* terminate_timed_out_job of a regular job: whether status Error is written,
\* the calls made in their order, the value returned, and whether it raised
terminate_regular(job_info, outcome) ==
    IF outcome = "import_raises"
    THEN [written |-> FALSE, calls |-> <<>>, result |-> FALSE, raised |-> TRUE]
    ELSE IF job_info.handler_id = None \/ outcome = "write_raises"
    THEN [written |-> FALSE, calls |-> <<>>, result |-> FALSE, raised |-> FALSE]
    ELSE [written |-> TRUE,
          calls |-> <<StatusWrite(job_info.job_id, "Error"),
                      Stop(job_info.job_id, 0, outcome = "stop_true")>>,
          result |-> outcome = "stop_true", raised |-> FALSE]

\* terminate_timed_out_job of an AutoML recommendation, on controller info ci
terminate_automl(job_info, ci, outcome) ==
    LET j == job_info.job_id
        e == job_info.experiment_number
        found == \E k \in DOMAIN ci : ci[k].id = e
    IN  IF outcome = "import_raises"
        THEN [saved |-> FALSE, calls |-> <<>>, result |-> FALSE, raised |-> TRUE]
        ELSE IF outcome = "read_raises" \/ ~found
        THEN [saved |-> FALSE, calls |-> <<>>, result |-> FALSE, raised |-> FALSE]
        ELSE [saved |-> TRUE,
              calls |-> <<ControllerSave(j, e)>>
                        \o (IF outcome = "stop_true" THEN <<Stop(j, e, TRUE)>>
                            ELSE IF outcome = "stop_raises" THEN <<Stop(j, e, FALSE)>>
                            ELSE <<Stop(j, e, FALSE),
                                   Stop(j, 0, outcome = "fallback_true")>>),
              result |-> outcome \in {"stop_true", "fallback_true"},
              raised |-> FALSE]

\* entry of check_for_timed_out_jobs: the two lists are fetched and joined
PassBegin ==
    /\ tracker.pc = "idle"
    /\ \E raises \in BOOLEAN, orphans \in SUBSET Jobs :
         LET all == IF raises THEN <<>>
                    ELSE RunningJobInfos(1, orphans)
                         \o get_all_running_automl_experiments(1)
         IN  tracker' = [NoPass EXCEPT !.pc = "check", !.infos = all, !.todo = all]
    /\ events' = <<>>
    /\ UNCHANGED <<storeVars, startVars, loopVars, tickVars, histVars, reqVars,
                   probeVars, controller_info, retryVars, bulkVars, autodelVars, callbackVars>>

Checked(info, outcome) == [info |-> info, outcome |-> outcome]

\* the mutant of AfterException: the exception of one job ends the pass
AfterExceptionAbort(todo) == <<>>

\* `except Exception: ... continue`: on to the next job_info
AfterException(todo) == Tail(todo)

\* check_job_timeout(job_info) inside the per-job try
PassCheck ==
    /\ tracker.pc = "check"
    /\ tracker.todo # <<>>
    /\ LET info == Head(tracker.todo) IN
       \E raises \in BOOLEAN, age \in TickAges :
          IF raises
          THEN tracker' = [tracker EXCEPT
                             !.todo = AfterException(@),
                             !.checked = Append(@, Checked(info, "raised"))]
          ELSE IF check_job_timeout(info, status[info.job_id],
                                    ExperimentStatus(controller_info[info.job_id],
                                                     info.experiment_number),
                                    age, None)
          THEN tracker' = [tracker EXCEPT !.pc = "terminate"]
          ELSE tracker' = [tracker EXCEPT
                             !.todo = Tail(@),
                             !.checked = Append(@, Checked(info, "not timed out"))]
    /\ UNCHANGED <<storeVars, startVars, loopVars, tickVars, histVars, reqVars,
                   probeVars, controller_info, events, retryVars, bulkVars, autodelVars, callbackVars>>

\* what the pass does with the job_info once terminate_timed_out_job is over
AfterTerminate(t, info, r) ==
    IF r.raised
    THEN [t EXCEPT !.pc = "check", !.todo = AfterException(@),
                   !.checked = Append(@, Checked(info, "raised"))]
    ELSE [t EXCEPT !.pc = "check", !.todo = Tail(@),
                   !.checked = Append(@, Checked(info, IF r.result THEN "terminated"
                                                       ELSE "not terminated")),
                   !.terminated = IF r.result
                                  THEN Append(@, <<info.job_id, info.experiment_number>>)
                                  ELSE @]

\* `if terminate_timed_out_job(job_info): terminated_jobs.append(...)`
PassTerminate ==
    /\ tracker.pc = "terminate"
    /\ LET info == Head(tracker.todo) IN
       IF info.is_automl
       THEN \E outcome \in AutomlOutcomes :
              LET r == terminate_automl(info, controller_info[info.job_id], outcome) IN
              /\ controller_info' =
                   IF r.saved
                   THEN [controller_info EXCEPT ![info.job_id] =
                           MarkTimedOut(@, info.experiment_number)]
                   ELSE controller_info
              /\ events' = events \o r.calls
              /\ tracker' = AfterTerminate(tracker, info, r)
              /\ UNCHANGED status
       ELSE \E outcome \in RegularOutcomes :
              LET r == terminate_regular(info, outcome) IN
              /\ status' = IF r.written THEN [status EXCEPT ![info.job_id] = "Error"]
                           ELSE status
              /\ events' = events \o r.calls
              /\ tracker' = AfterTerminate(tracker, info, r)
              /\ UNCHANGED controller_info
    /\ UNCHANGED <<workflow_status, priority, created_on, dependencies, action,
                   automl, message, startVars, loopVars, tickVars, histVars,
                   reqVars, probeVars, retryVars, bulkVars, autodelVars, callbackVars>>

\* `return terminated_jobs`
PassEnd ==
    /\ tracker.pc = "check"
    /\ tracker.todo = <<>>
    /\ tracker' = [tracker EXCEPT !.pc = "returned"]
    /\ UNCHANGED <<storeVars, startVars, loopVars, tickVars, histVars, reqVars,
                   probeVars, controller_info, events, retryVars, bulkVars, autodelVars, callbackVars>>

\* the next tick: check_for_timed_out_jobs is called again
PassAgain ==
    /\ tracker.pc = "returned"
    /\ tracker' = NoPass
    /\ events' = <<>>
    /\ UNCHANGED <<storeVars, startVars, loopVars, tickVars, histVars, reqVars,
                   probeVars, controller_info, retryVars, bulkVars, autodelVars, callbackVars>>

\* ------------------------------------------------------------- job_retry
\* `status in ("Done", "Running", "Pending", "Canceling", "Resuming", ...)`
RetryBlocked ==
    {"Done", "Running", "Pending", "Canceling", "Resuming", "Pausing", "Paused"}

\* the mutant of CanRetry: the status of the source job is not looked at
CanRetryAny(s) == TRUE

\* job_retry goes on to job_run
CanRetry(s) == s \notin RetryBlocked

\* str(uuid.uuid4()): an id no job has
FreshId == CHOOSE n \in Jobs : status[n] = "absent" /\ \A k \in Jobs : k < n => status[k] # "absent"

RetryReturned(r, code) == [r EXCEPT !.pc = "returned", !.code = code]

\* job_retry up to the call of job_run: 404 without metadata, 400 when the
\* status forbids the retry
RetryBegin(j) ==
    /\ retry.pc = "idle"
    /\ LET r == [NoRetry EXCEPT !.job = j, !.job_status = status[j]] IN
       retry' = IF status[j] = "absent" THEN RetryReturned(r, 404)
                ELSE IF ~CanRetry(status[j]) THEN RetryReturned(r, 400)
                ELSE [r EXCEPT !.pc = "job_run"]
    /\ UNCHANGED <<storeVars, startVars, loopVars, tickVars, histVars, reqVars,
                   probeVars, trackVars, bulkVars, autodelVars, callbackVars>>

\* what the job_run call of a retry comes to: a validation that fails (404),
\* an exception before on_new_job (500), the job scheduled (200), an
\* exception of save_job_specs after on_new_job (500)
JobRunOutcomes == {"invalid", "raises", "scheduled", "specs_raise"}

\* JobHandler.job_run(org_name, handler_id, parent_job_id, action, kind, specs,
\* name, description, platform_id=platform_id): the new job copies the source
\* job's action and parent and enters Pending / enqueued
RetryJobRun(outcome) ==
    /\ retry.pc = "job_run"
    /\ \E n \in Jobs : status[n] = "absent"
    /\ LET j == retry.job
           n == FreshId
       IN  IF outcome \in {"scheduled", "specs_raise"}
           THEN /\ \A k \in DOMAIN dependencies[j] :
                      dependencies[j][k].type = "parent_job"
                          => status[dependencies[j][k].name] # "absent"
                /\ workflow_status' = [workflow_status EXCEPT ![n] = "enqueued"]
                /\ status' = [status EXCEPT ![n] = "Pending"]
                /\ priority' = [priority EXCEPT ![n] = DefaultPriority]
                /\ created_on' = [created_on EXCEPT ![n] = 1]
                /\ dependencies' = [dependencies EXCEPT ![n] = dependencies[j]]
                /\ action' = [action EXCEPT ![n] = action[j]]
                /\ automl' = [automl EXCEPT ![n] = automl[j]]
                /\ retry' = [RetryReturned(retry, IF outcome = "scheduled" THEN 200
                                                  ELSE 500) EXCEPT !.new = n]
           ELSE /\ retry' = RetryReturned(retry, IF outcome = "invalid" THEN 404
                                                 ELSE 500)
                /\ UNCHANGED <<workflow_status, status, priority, created_on,
                               dependencies, action, automl>>
    /\ UNCHANGED <<message, startVars, loopVars, tickVars, histVars, reqVars,
                   probeVars, trackVars, bulkVars, autodelVars, callbackVars>>

\* the caller has its answer: the next call may come
RetryEnd ==
    /\ retry.pc = "returned"
    /\ retry' = NoRetry
    /\ UNCHANGED <<storeVars, startVars, loopVars, tickVars, histVars, reqVars,
                   probeVars, trackVars, bulkVars, autodelVars, callbackVars>>

\* ------------------------------------------------ JobHandler.all_job_cancel
\* the statuses cancel_jobs_within_handler passes over
BulkSkipStatuses == {"Error", "Done", "Canceled", "Canceling", "Pausing", "Paused"}

\* the test of cancel_jobs_within_handler on a job_cancel response: a code
\* other than 200 whose data is a dict with an error_desc other than
\* "incomplete job not found"
CancelFailed(code, data_is_dict, error_desc) ==
    /\ code # 200
    /\ data_is_dict
    /\ error_desc # "incomplete job not found"

\* train_datasets, eval_dataset, inference_dataset and the handler itself, in
\* the order all_job_cancel visits them, each with the ids of its jobs
BulkLayouts ==
    {<<<<1, 2>>>>, <<<<1>>, <<2>>>>, <<<<2>>, <<1>>>>, <<<<1>>, <<>>, <<2>>>>}

BulkReturned(b, st, code) ==
    [b EXCEPT !.pc = "returned", !.all_jobs_cancel_status = st, !.code = code]

\* all_job_cancel up to the first list: 404 without metadata or write access,
\* 200 when a cancel of all jobs is under way, else "Canceling" is written
BulkBegin(found, layout) ==
    /\ bulk.pc = "idle"
    /\ req.pc = "idle"
    /\ bulk' = IF ~found
               THEN BulkReturned(bulk, bulk.all_jobs_cancel_status, 404)
               ELSE IF bulk.all_jobs_cancel_status = "Canceling"
               THEN BulkReturned(bulk, "Canceling", 200)
               ELSE [bulk EXCEPT !.pc = "jobs", !.groups = layout,
                                 !.all_jobs_cancel_status = "Canceling",
                                 !.marked = TRUE, !.cancel_success = TRUE]
    /\ UNCHANGED <<storeVars, startVars, loopVars, tickVars, histVars, reqVars,
                   probeVars, trackVars, retryVars, autodelVars, callbackVars>>

\* cancel_jobs_within_handler: the next job of the list is passed over or a
\* job_cancel is issued for it
BulkNextJob ==
    /\ bulk.pc = "jobs"
    /\ bulk.groups # <<>>
    /\ Head(bulk.groups) # <<>>
    /\ LET j == Head(Head(bulk.groups))
           rest == <<Tail(Head(bulk.groups))>> \o Tail(bulk.groups)
       IN  bulk' = IF status[j] \in BulkSkipStatuses \cup {"absent"}
                   THEN [bulk EXCEPT !.groups = rest]
                   ELSE [bulk EXCEPT !.groups = rest, !.pc = "calling", !.job = j]
    /\ UNCHANGED <<storeVars, startVars, loopVars, tickVars, histVars, reqVars,
                   probeVars, trackVars, retryVars, autodelVars, callbackVars>>

\* JobHandler.job_cancel(org_name, cancel_handler_id, job_id, cancel_kind)
BulkCall ==
    /\ bulk.pc = "calling"
    /\ ReqBegin(bulk.job, "cancel")

\* the response of job_cancel is tested; an exception of job_cancel reaches
\* the except clause of all_job_cancel
BulkCollect ==
    /\ bulk.pc = "calling"
    /\ req.pc \in {"returned", "raised"}
    /\ req' = NoRequest
    /\ bulk' = IF req.pc = "raised"
               THEN BulkReturned([bulk EXCEPT !.issued = @ + 1], "Error", 404)
               ELSE [bulk EXCEPT !.pc = "jobs",
                                 !.issued = @ + 1,
                                 !.non200 = IF req.code # 200 THEN @ + 1 ELSE @,
                                 !.cancel_success =
                                     @ /\ ~CancelFailed(req.code, TRUE, "job not found")]
    /\ UNCHANGED <<storeVars, startVars, loopVars, tickVars, histVars, probeVars,
                   trackVars, retryVars, autodelVars, callbackVars>>

\* jobs_cancel_sucess, message = cancel_jobs_within_handler(...): the result
\* of the list just visited is assigned
BulkGroupEnd ==
    /\ bulk.pc = "jobs"
    /\ bulk.groups # <<>>
    /\ Head(bulk.groups) = <<>>
    /\ bulk' = [bulk EXCEPT !.groups = Tail(bulk.groups),
                            !.jobs_cancel_sucess = bulk.cancel_success,
                            !.cancel_success = TRUE]
    /\ UNCHANGED <<storeVars, startVars, loopVars, tickVars, histVars, reqVars,
                   probeVars, trackVars, retryVars, autodelVars, callbackVars>>

\* an exception of a store call inside the try: "Error" is written, Code 404
BulkRaise ==
    /\ bulk.pc = "jobs"
    /\ bulk' = BulkReturned(bulk, "Error", 404)
    /\ UNCHANGED <<storeVars, startVars, loopVars, tickVars, histVars, reqVars,
                   probeVars, trackVars, retryVars, autodelVars, callbackVars>>

\* after the last list: "Canceled" and Code 200 when jobs_cancel_sucess, else
\* "Error" and Code 404
BulkFinish ==
    /\ bulk.pc = "jobs"
    /\ bulk.groups = <<>>
    /\ bulk' = IF bulk.jobs_cancel_sucess
               THEN BulkReturned(bulk, "Canceled", 200)
               ELSE BulkReturned(bulk, "Error", 404)
    /\ UNCHANGED <<storeVars, startVars, loopVars, tickVars, histVars, reqVars,
                   probeVars, trackVars, retryVars, autodelVars, callbackVars>>

\* the caller has its answer: the next call may come
BulkEnd ==
    /\ bulk.pc = "returned"
    /\ bulk' = [NoBulk EXCEPT !.all_jobs_cancel_status = bulk.all_jobs_cancel_status]
    /\ UNCHANGED <<storeVars, startVars, loopVars, tickVars, histVars, reqVars,
                   probeVars, trackVars, retryVars, autodelVars, callbackVars>>

\* ------------------------ process_inference_microservice_auto_deletions
OtherVarsAutodel == <<storeVars, startVars, loopVars, tickVars, histVars, reqVars,
                      probeVars, trackVars, retryVars, bulkVars, callbackVars>>

\* the stop calls counted for one job
MaxStops == 3

RECURSIVE SeqOfSet(_)
SeqOfSet(S) ==
    IF S = {} THEN <<>>
    ELSE LET m == CHOOSE x \in S : \A y \in S : x <= y
         IN  <<m>> \o SeqOfSet(S \ {m})

\* an inference microservice pod writes AUTO_DELETION_REQUESTED into the
\* status list of its job
AutodelRequest(j) ==
    /\ autodel.requests[j] = "none"
    /\ autodel' = [autodel EXCEPT !.requests[j] = "requested"]
    /\ UNCHANGED OtherVarsAutodel

\* the first loop: every record with an AUTO_DELETION_REQUESTED entry that is
\* not auto_deletion_processed gives one element of jobs_to_delete; an
\* exception of MongoHandler or find is logged by the outer except clause
AutodelScan(raises) ==
    /\ autodel.pc = "idle"
    /\ autodel' = IF raises THEN autodel
                  ELSE LET found == {j \in Jobs : autodel.requests[j] = "requested"}
                       IN  IF found = {} THEN autodel
                           ELSE [autodel EXCEPT !.pc = "stop",
                                                !.jobs_to_delete = SeqOfSet(found)]
    /\ UNCHANGED OtherVarsAutodel

\* InferenceMicroserviceHandler.stop_inference_microservice(job_id,
\* auto_deletion=True): code 200, another code, or an exception, which enters
\* the inner except clause
AutodelStop(outcome) ==
    /\ autodel.pc = "stop"
    /\ autodel.stop_calls[Head(autodel.jobs_to_delete)] < MaxStops
    /\ autodel' = [autodel EXCEPT !.pc = "mark",
                                  !.stop_calls[Head(autodel.jobs_to_delete)] = @ + 1,
                                  !.in_except = (outcome = "raises")]
    /\ UNCHANGED OtherVarsAutodel

\* the function is over or goes on with the next element of jobs_to_delete
AutodelNext(a) ==
    [a EXCEPT !.jobs_to_delete = Tail(@),
              !.in_except = FALSE,
              !.pc = IF Tail(a.jobs_to_delete) = <<>> THEN "idle" ELSE "stop"]

\* find_one, the marking of every AUTO_DELETION_REQUESTED entry as
\* auto_deletion_processed, upsert. An exception in the try body enters the
\* inner except clause, which marks again; an exception in the except clause
\* reaches the outer except clause, which logs it and ends the function
AutodelMark(found, raises) ==
    /\ autodel.pc = "mark"
    /\ LET j == Head(autodel.jobs_to_delete) IN
       autodel' =
           IF raises
           THEN IF autodel.in_except
                THEN [autodel EXCEPT !.pc = "idle", !.jobs_to_delete = <<>>,
                                     !.in_except = FALSE]
                ELSE [autodel EXCEPT !.in_except = TRUE]
           ELSE IF found
                THEN AutodelNext([autodel EXCEPT !.requests[j] = "processed"])
                ELSE AutodelNext([autodel EXCEPT !.requests[j] = "gone"])
    /\ UNCHANGED OtherVarsAutodel

\* ------------------------- JobHandler.job_status_update, job_log_update
OtherVarsCallback == <<storeVars, startVars, loopVars, tickVars, histVars, reqVars,
                       probeVars, trackVars, retryVars, bulkVars, autodelVars>>

\* the callback_data counted for one job
MaxSaved == 2

\* get_job(job_id): the document of the job, None when the store has none
get_job(j) == IF status[j] = "absent" THEN "None" ELSE "job"

\* job_status_update / job_log_update: 404 without handler metadata or write
\* access; job.get("action", "") on the answer of get_job, an AttributeError
\* on None; 404 without job or user_id; else the callback_data is saved
\* (save_dnn_status, or the write to the log file) and 200 returned
JobCallbackUpdate(j, kind, handler_found, user_id) ==
    /\ callback.pc = "idle"
    /\ callback.saved_status[j] < MaxSaved
    /\ callback.saved_log[j] < MaxSaved
    /\ LET c == [callback EXCEPT !.job = j, !.kind = kind] IN
       callback' =
           IF ~handler_found
           THEN [c EXCEPT !.pc = "returned", !.code = 404]
           ELSE IF get_job(j) = "None"
           THEN [c EXCEPT !.pc = "raised"]
           ELSE IF ~user_id
           THEN [c EXCEPT !.pc = "returned", !.code = 404]
           ELSE IF kind = "status"
           THEN [c EXCEPT !.pc = "returned", !.code = 200,
                          !.saved_status[j] = @ + 1]
           ELSE [c EXCEPT !.pc = "returned", !.code = 200,
                          !.saved_log[j] = @ + 1]
    /\ UNCHANGED OtherVarsCallback

\* the caller has its answer or its exception: the next call may come
JobCallbackEnd ==
    /\ callback.pc \in {"returned", "raised"}
    /\ callback' = [callback EXCEPT !.pc = "idle", !.job = 0, !.kind = "",
                                    !.code = 0]
    /\ UNCHANGED OtherVarsCallback

\* ------------------------------------------ report_healthy, Workflow.healthy
\* the staleness threshold of Workflow.healthy, in seconds
HealthMaxAge == 3600

\* the mutant of healthy: a heartbeat of exactly one hour is stale
healthy_strict(created_age, store_ok) ==
    IF ~store_ok \/ created_age = None THEN FALSE
    ELSE created_age < HealthMaxAge

\* Workflow.healthy(): created_age is the age in seconds of the latest health
\* record (None: there is no record), store_ok whether the store answered;
\* every exception is caught and answered False
healthy(created_age, store_ok) ==
    IF ~store_ok \/ created_age = None THEN FALSE
    ELSE created_age <= HealthMaxAge

\* the ages a heartbeat is looked at
HealthAges == {0, 1, 1800, 3599, 3600, 3601, 7200}

\* the heartbeat under observation: its age, whether the loop thread is
\* ticking, and the last healthy() call (the age it saw, whether the store
\* answered, whether the loop was ticking, the value returned)
NoCall == [seen |-> None, store_ok |-> TRUE, ticking |-> FALSE, result |-> "none"]
NoHealth == [age |-> None, ticking |-> FALSE, call |-> NoCall]

\* the first statement of scan_for_jobs' loop, and every report_healthy of a
\* tick after it: a fresh health record
HealthBeat ==
    /\ probe.age # 0 \/ ~probe.ticking
    /\ probe' = [probe EXCEPT !.age = 0, !.ticking = TRUE]
    /\ UNCHANGED <<storeVars, startVars, loopVars, tickVars, histVars, reqVars,
                   trackVars, retryVars, bulkVars, autodelVars, callbackVars>>

\* time passes; while the loop ticks, the next heartbeat comes within the
\* threshold
HealthWait ==
    /\ probe.age # None
    /\ \E a \in HealthAges :
          /\ a > probe.age
          /\ probe.ticking => a <= HealthMaxAge
          /\ probe' = [probe EXCEPT !.age = a]
    /\ UNCHANGED <<storeVars, startVars, loopVars, tickVars, histVars, reqVars,
                   trackVars, retryVars, bulkVars, autodelVars, callbackVars>>

\* the loop thread ends: no heartbeat is written any more
HealthLoopEnds ==
    /\ probe.ticking
    /\ probe' = [probe EXCEPT !.ticking = FALSE]
    /\ UNCHANGED <<storeVars, startVars, loopVars, tickVars, histVars, reqVars,
                   trackVars, retryVars, bulkVars, autodelVars, callbackVars>>

\* a Workflow.healthy() call
HealthCall ==
    /\ probe.call.result = "none"
    /\ \E store_ok \in BOOLEAN :
          probe' = [probe EXCEPT !.call =
                       [seen |-> probe.age, store_ok |-> store_ok,
                        ticking |-> probe.ticking,
                        result |-> IF healthy(probe.age, store_ok) THEN "True"
                                   ELSE "False"]]
    /\ UNCHANGED <<storeVars, startVars, loopVars, tickVars, histVars, reqVars,
                   trackVars, retryVars, bulkVars, autodelVars, callbackVars>>

\* the caller has its answer
HealthCallEnd ==
    /\ probe.call.result # "none"
    /\ probe' = [probe EXCEPT !.call = NoCall]
    /\ UNCHANGED <<storeVars, startVars, loopVars, tickVars, histVars, reqVars,
                   trackVars, retryVars, bulkVars, autodelVars, callbackVars>>

\* -------------------------------------------------------- specifications
Priorities == {0, 1}
CreatedOns == {1, 2}
\* the dependency lists job j may be created with
DepLists(j) ==
    {<<>>} \cup UNION {{<<Dep("parent_job", p)>>,
                        <<Dep("gpu", 0), Dep("parent_job", p)>>,
                        <<Dep("parent_job", p), Dep("gpu", 0)>>} : p \in 1..(j - 1)}

\* the pipeline threads of the jobs
JobSteps ==
    \/ \E j \in Jobs : JobStarts(j)
    \/ \E j \in Jobs, s \in {"Done", "Error"} : JobEnds(j, s)

\* Workflow.start() as called by caller c
StartSteps(c) ==
    \/ StartCheck(c)
    \/ \E j \in Jobs : RecoverJob(c, j)
    \/ \E j \in Jobs : RecoverSkipMalformed(c, j)
    \/ StartLaunch(c)

\* the WorkflowThreadTAO thread started by caller c
LoopSteps(c) ==
    \/ LoopAcquire(c)
    \/ TickLoad(c)
    \/ ScanDeps(c)
    \/ ScanStillExists(c)
    \/ ScanExecute(c)
    \/ ScanDequeue(c)
    \/ TickTimeout(c)

\* a job_cancel / job_pause call on a regular job
RequestSteps ==
    \/ \E j \in Jobs, op \in Ops : ReqBegin(j, op)
    \/ ReqMark
    \/ ReqPendingDelete
    \/ ReqStop
    \/ \E k \in K8sStatuses : ReqPoll(k)
    \/ ReqFinal
    \/ ReqRaise
    \/ ReqEnd

\* the steps only a call on an AutoML job takes
AutomlRequestSteps ==
    \/ \E code \in {200, 404} : ReqAutomlStop(code)
    \/ \E raises \in BOOLEAN : ReqAutomlPurge(raises)

\* Concurrent and repeated Workflow.start() calls: recovery, the loop
\* threads they launch, exceptions in the scan; regular and AutoML jobs.
NextStart ==
    \/ \E j \in Jobs, aml \in BOOLEAN :
         JobRun(j, DefaultPriority, 1, <<>>, "train", aml)
    \/ JobSteps
    \/ \E c \in Callers : StartSteps(c)
    \/ \E c \in Callers : LoopSteps(c)
    \/ \E c \in Callers : ScanRaise(c)

SpecStart == Init /\ [][NextStart]_vars

\* The scheduler over jobs with dependencies, with cancel / pause calls and
\* exceptions in the scan.
NextDeps ==
    \/ \E j \in Jobs : \E d \in DepLists(j) :
         JobRun(j, DefaultPriority, 1, d, "train", FALSE)
    \/ JobSteps
    \/ StartSteps(1)
    \/ LoopSteps(1)
    \/ ScanRaise(1)
    \/ RequestSteps

SpecDeps == Init /\ [][NextDeps]_vars

\* a regular train job, one whose action cannot be paused, an AutoML job
JobKinds == {[action |-> "train", automl |-> FALSE],
             [action |-> "evaluate", automl |-> FALSE],
             [action |-> "train", automl |-> TRUE]}

\* job_cancel / job_pause calls on regular and AutoML jobs of every status.
NextCancel ==
    \/ \E j \in Jobs, k \in JobKinds :
         JobRun(j, DefaultPriority, 1, <<>>, k.action, k.automl)
    \/ JobSteps
    \/ StartSteps(1)
    \/ LoopSteps(1)
    \/ RequestSteps
    \/ AutomlRequestSteps

SpecCancel == Init /\ [][NextCancel]_vars

\* One scheduler loop over jobs of every priority and creation time.
NextOrder ==
    \/ \E j \in Jobs, p \in Priorities, c \in CreatedOns :
         JobRun(j, p, c, <<>>, "train", FALSE)
    \/ JobSteps
    \/ StartSteps(1)
    \/ LoopSteps(1)

SpecOrder == Init /\ [][NextOrder]_vars

\* check_job_timeout called once on a job_info, for every status the job may
\* have and every age around the default and the per-job timeouts.
TimeoutMinutes == {None, 1, 120}
ProbeAges == {None, 59, 60, 61, 3599, 3600, 3601, 5400, 7199, 7200, 7201}
Probes ==
    [job_info : [job_id : {None, 1}, is_automl : BOOLEAN,
                 timeout_minutes : TimeoutMinutes],
     cur_status : {"absent", "Pending", "Running", "Done", "Error", "Canceled",
                   "Paused"},
     exp_status : {"absent", "pending", "running", "started", "success",
                   "failure"},
     status_age : ProbeAges,
     modified_age : {None, 0, 3601},
     result : {"none"}]

InitTimeout == InitProgram /\ InitTracker /\ probe \in Probes

\* result = check_job_timeout(job_info)
CheckTimeout ==
    /\ probe.result = "none"
    /\ probe' = [probe EXCEPT !.result =
                   IF check_job_timeout(probe.job_info, probe.cur_status,
                                        probe.exp_status, probe.status_age,
                                        probe.modified_age)
                   THEN "True" ELSE "False"]
    /\ UNCHANGED <<storeVars, startVars, loopVars, tickVars, histVars, reqVars,
                   trackVars, retryVars, bulkVars, autodelVars, callbackVars>>

NextTimeout == CheckTimeout

SpecTimeout == InitTimeout /\ [][NextTimeout]_vars

\* The timeout tracker over a store with regular jobs and one AutoML job with
\* its recommendations: job 1 is AutoML-bearing when it has recommendations.
RecStatuses == {"running", "pending", "success"}
RecLists ==
    {<<>>}
    \cup {<<[id |-> 5, status |-> a, message |-> "Training"]>> : a \in RecStatuses}
    \cup {<<[id |-> 5, status |-> a, message |-> "Training"],
            [id |-> 6, status |-> b, message |-> "Waiting"]>> :
              a \in RecStatuses, b \in RecStatuses}

InitTerminate ==
    /\ workflow_status = [j \in Jobs |-> "dequeued"]
    /\ status \in [Jobs -> {"Running", "Pending", "Done"}]
    /\ priority = [j \in Jobs |-> DefaultPriority]
    /\ created_on = [j \in Jobs |-> 1]
    /\ dependencies = [j \in Jobs |-> <<>>]
    /\ action = [j \in Jobs |-> "train"]
    /\ \E ci \in RecLists :
          /\ controller_info = [j \in Jobs |-> IF j = 1 THEN ci ELSE <<>>]
          /\ automl = [j \in Jobs |-> j = 1 /\ ci # <<>>]
    /\ message = [j \in Jobs |-> NoMessage]
    /\ startPc = [c \in Callers |-> "idle"]
    /\ pendingJobs = [c \in Callers |-> {}]
    /\ automl_brain_restarted = [c \in Callers |-> FALSE]
    /\ loopPc = [c \in Callers |-> "none"]
    /\ lock = 0
    /\ queue = <<>>
    /\ idx = 0
    /\ jobs_to_dequeue = <<>>
    /\ all_met = FALSE
    /\ dispatched = [j \in Jobs |-> 1]
    /\ attempted = <<>>
    /\ reread = ""
    /\ marked = {}
    /\ abandoned = {}
    /\ recovered = {}
    /\ monitors = [j \in Jobs |-> 0]
    /\ cleared = [j \in Jobs |-> 0]
    /\ resumed = 0
    /\ recoveries = 0
    /\ launched = 0
    /\ req = NoRequest
    /\ retry = NoRetry
    /\ bulk = NoBulk
    /\ autodel = NoAutodel
    /\ callback = NoCallback
    /\ probe = NoProbe
    /\ tracker = NoPass
    /\ events = <<>>

NextTerminate ==
    \/ PassBegin
    \/ PassCheck
    \/ PassTerminate
    \/ PassEnd
    \/ PassAgain

SpecTerminate == InitTerminate /\ [][NextTerminate]_vars

\* job_retry calls on jobs of every status: all jobs but the last exist, a
\* job after the first may have a parent among the jobs before it.
RetryStatuses == RetryBlocked \cup {"Error", "Canceled"}

InitRetry ==
    /\ status \in {f \in [Jobs -> RetryStatuses \cup {"absent"}] :
                      \A j \in Jobs : f[j] = "absent" <=> j = NumJobs}
    /\ workflow_status = [j \in Jobs |-> IF status[j] = "absent" THEN "absent"
                                         ELSE IF status[j] = "Pending" THEN "enqueued"
                                         ELSE "dequeued"]
    /\ priority = [j \in Jobs |-> DefaultPriority]
    /\ created_on = [j \in Jobs |-> IF status[j] = "absent" THEN 0 ELSE 1]
    /\ dependencies \in {f \in [Jobs -> UNION {DepLists(j) : j \in Jobs}] :
                            \A j \in Jobs : IF status[j] = "absent" THEN f[j] = <<>>
                                            ELSE f[j] \in DepLists(j)}
    /\ action \in {f \in [Jobs -> {"", "train", "evaluate"}] :
                      \A j \in Jobs : f[j] = "" <=> status[j] = "absent"}
    /\ automl \in {f \in [Jobs -> BOOLEAN] :
                      \A j \in Jobs : f[j] => status[j] # "absent"}
    /\ message = [j \in Jobs |-> NoMessage]
    /\ startPc = [c \in Callers |-> "idle"]
    /\ pendingJobs = [c \in Callers |-> {}]
    /\ automl_brain_restarted = [c \in Callers |-> FALSE]
    /\ loopPc = [c \in Callers |-> "none"]
    /\ lock = 0
    /\ queue = <<>>
    /\ idx = 0
    /\ jobs_to_dequeue = <<>>
    /\ all_met = FALSE
    /\ dispatched = [j \in Jobs |-> 0]
    /\ attempted = <<>>
    /\ reread = ""
    /\ marked = {}
    /\ abandoned = {}
    /\ recovered = {}
    /\ monitors = [j \in Jobs |-> 0]
    /\ cleared = [j \in Jobs |-> 0]
    /\ resumed = 0
    /\ recoveries = 0
    /\ launched = 0
    /\ req = NoRequest
    /\ retry = NoRetry
    /\ bulk = NoBulk
    /\ autodel = NoAutodel
    /\ callback = NoCallback
    /\ probe = NoProbe
    /\ InitTracker

NextRetry ==
    \/ \E j \in Jobs : RetryBegin(j)
    \/ \E outcome \in JobRunOutcomes : RetryJobRun(outcome)
    \/ RetryEnd

SpecRetry == InitRetry /\ [][NextRetry]_vars

\* Workflow.start on a store left by a process that died: regular and AutoML
\* jobs, enqueued or with a lost monitor, AutoML jobs with their
\* recommendations.
RecoverLists ==
    {<<>>,
     <<[id |-> 5, status |-> "running", message |-> "Training"]>>,
     <<[id |-> 5, status |-> "running", message |-> "Training"],
       [id |-> 6, status |-> "pending", message |-> "Waiting"]>>,
     <<[id |-> 5, status |-> "success", message |-> "Training"],
       [id |-> 6, status |-> "started", message |-> "Waiting"]>>}

InitRecover ==
    /\ status \in [Jobs -> {"Pending", "Running", "Done"}]
    /\ workflow_status \in {f \in [Jobs -> {"enqueued", "dequeued"}] :
                               \A j \in Jobs : f[j] = "enqueued" => status[j] = "Pending"}
    /\ priority = [j \in Jobs |-> DefaultPriority]
    /\ created_on = [j \in Jobs |-> 1]
    /\ dependencies = [j \in Jobs |-> <<>>]
    /\ action \in [Jobs -> {"train", "convert"}]
    /\ controller_info \in [Jobs -> RecoverLists]
    /\ automl = [j \in Jobs |-> controller_info[j] # <<>>]
    /\ message = [j \in Jobs |-> NoMessage]
    /\ startPc = [c \in Callers |-> "idle"]
    /\ pendingJobs = [c \in Callers |-> {}]
    /\ automl_brain_restarted = [c \in Callers |-> FALSE]
    /\ loopPc = [c \in Callers |-> "none"]
    /\ lock = 0
    /\ queue = <<>>
    /\ idx = 0
    /\ jobs_to_dequeue = <<>>
    /\ all_met = FALSE
    /\ dispatched = [j \in Jobs |-> 0]
    /\ attempted = <<>>
    /\ reread = ""
    /\ marked = {}
    /\ abandoned = {}
    /\ recovered = {}
    /\ monitors = [j \in Jobs |-> 0]
    /\ cleared = [j \in Jobs |-> 0]
    /\ resumed = 0
    /\ recoveries = 0
    /\ launched = 0
    /\ req = NoRequest
    /\ retry = NoRetry
    /\ bulk = NoBulk
    /\ autodel = NoAutodel
    /\ callback = NoCallback
    /\ probe = NoProbe
    /\ tracker = NoPass
    /\ events = <<>>

NextRecover == \E c \in Callers : StartSteps(c)

SpecRecover == InitRecover /\ [][NextRecover]_vars

\* job_cancel / job_pause calls alone, on the same stores. The steps of the
\* handler are fair; the answers of the compute unit to the polls are not:
\* it may report Running for ever.
NextPoll ==
    \/ RequestSteps
    \/ AutomlRequestSteps

FairHandler ==
    /\ WF_vars(ReqMark)
    /\ WF_vars(ReqPendingDelete)
    /\ WF_vars(ReqStop)
    /\ WF_vars(ReqFinal)

SpecPoll == InitRecover /\ [][NextPoll]_vars /\ FairHandler

\* Workflow.healthy() calls against the heartbeat of the scheduler loop.
InitHealth == InitProgram /\ InitTracker /\ probe = NoHealth

NextHealth ==
    \/ HealthBeat
    \/ HealthWait
    \/ HealthLoopEnds
    \/ HealthCall
    \/ HealthCallEnd

SpecHealth == InitHealth /\ [][NextHealth]_vars

\* One scheduler loop over jobs with and without an action pipeline.
NextDispatch ==
    \/ \E j \in Jobs, p \in Priorities, a \in {"train", "convert"} :
         JobRun(j, p, 1, <<>>, a, FALSE)
    \/ JobSteps
    \/ StartSteps(1)
    \/ LoopSteps(1)

SpecDispatch == Init /\ [][NextDispatch]_vars

\* all_job_cancel calls on a handler whose jobs are Pending, Running or Done,
\* regular or AutoML; the job_cancel calls are the ones all_job_cancel issues.
InitBulk ==
    /\ InitTracker
    /\ probe = NoProbe
    /\ status \in [Jobs -> {"Pending", "Running", "Done"}]
    /\ workflow_status = [j \in Jobs |-> IF status[j] = "Pending" THEN "enqueued"
                                         ELSE "dequeued"]
    /\ priority = [j \in Jobs |-> DefaultPriority]
    /\ created_on = [j \in Jobs |-> 1]
    /\ dependencies = [j \in Jobs |-> <<>>]
    /\ action = [j \in Jobs |-> "train"]
    /\ automl \in [Jobs -> BOOLEAN]
    /\ message = [j \in Jobs |-> NoMessage]
    /\ startPc = [c \in Callers |-> "idle"]
    /\ pendingJobs = [c \in Callers |-> {}]
    /\ automl_brain_restarted = [c \in Callers |-> FALSE]
    /\ loopPc = [c \in Callers |-> "none"]
    /\ lock = 0
    /\ queue = <<>>
    /\ idx = 0
    /\ jobs_to_dequeue = <<>>
    /\ all_met = FALSE
    /\ dispatched = [j \in Jobs |-> 0]
    /\ attempted = <<>>
    /\ reread = ""
    /\ marked = {}
    /\ abandoned = {}
    /\ recovered = {}
    /\ monitors = [j \in Jobs |-> 0]
    /\ cleared = [j \in Jobs |-> 0]
    /\ resumed = 0
    /\ recoveries = 0
    /\ launched = 0
    /\ req = NoRequest
    /\ retry = NoRetry
    /\ bulk \in {[NoBulk EXCEPT !.all_jobs_cancel_status = st] :
                    st \in {"none", "Canceling", "Canceled", "Error"}}
    /\ autodel = NoAutodel
    /\ callback = NoCallback

NextBulk ==
    \/ \E found \in BOOLEAN, layout \in BulkLayouts : BulkBegin(found, layout)
    \/ BulkNextJob
    \/ BulkCall
    \/ BulkCollect
    \/ BulkGroupEnd
    \/ BulkRaise
    \/ BulkFinish
    \/ BulkEnd
    \/ ReqMark
    \/ ReqPendingDelete
    \/ ReqStop
    \/ \E k \in K8sStatuses : ReqPoll(k)
    \/ ReqFinal
    \/ ReqRaise
    \/ \E code \in {200, 404} : ReqAutomlStop(code)
    \/ \E raises \in BOOLEAN : ReqAutomlPurge(raises)

SpecBulk == InitBulk /\ [][NextBulk]_vars

\* Passes of process_inference_microservice_auto_deletions, one per tick of
\* the scheduler loop, over requests that arrive at any time.
NextAutodel ==
    \/ \E j \in Jobs : AutodelRequest(j)
    \/ \E raises \in BOOLEAN : AutodelScan(raises)
    \/ \E outcome \in {"200", "404", "raises"} : AutodelStop(outcome)
    \/ \E found \in BOOLEAN, raises \in BOOLEAN : AutodelMark(found, raises)

SpecAutodel == Init /\ [][NextAutodel]_vars

\* Status and log callbacks for jobs the store holds and for an id it does
\* not hold.
NextCallback ==
    \/ \E j \in Jobs, kind \in {"status", "log"}, handler_found \in BOOLEAN,
          user_id \in BOOLEAN : JobCallbackUpdate(j, kind, handler_found, user_id)
    \/ JobCallbackEnd

SpecCallback == InitRetry /\ [][NextCallback]_vars

\* The timeout tracker with job_cancel / job_pause calls on regular jobs
\* running beside it.
NextTrackCancel ==
    \/ NextTerminate
    \/ RequestSteps

SpecTrackCancel == InitTerminate /\ [][NextTrackCancel]_vars

\* Jobs with dependencies, a loop thread that may die, and a later
\* Workflow.start() that runs the recovery over what the first left.
NextRestart ==
    \/ \E j \in Jobs : \E d \in DepLists(j) :
         JobRun(j, DefaultPriority, 1, d, "train", FALSE)
    \/ JobSteps
    \/ \E c \in Callers : StartSteps(c)
    \/ \E c \in Callers : LoopSteps(c)
    \/ \E c \in Callers : ScanRaise(c)

SpecRestart == Init /\ [][NextRestart]_vars

\* One loop thread that keeps ticking over jobs of two priorities, with
\* dependencies and with or without an action pipeline; no exception, no
\* cancel. The thread runs `while True`, so its steps are taken when enabled.
NextTicking ==
    \/ \E j \in Jobs, p \in Priorities, a \in {"train", "convert"} :
         \E d \in DepLists(j) : JobRun(j, p, 1, d, a, FALSE)
    \/ JobSteps
    \/ StartSteps(1)
    \/ LoopSteps(1)

FairLoop == WF_vars(StartSteps(1)) /\ WF_vars(LoopSteps(1))

SpecTicking == Init /\ [][NextTicking]_vars /\ FairLoop

\* ================================================================ claims
Range(s) == {s[k] : k \in DOMAIN s}

\* a tick of the loop thread of caller c is between its load and its end
TickRunning(c) == lock = c /\ loopPc[c] \in {"deps", "exists", "exec", "dequeue"}

\* caller c is inside restart_threads
RecoveryRunning(c) == startPc[c] = "recover"

\* C1: a job for which execute_job returned True is dispatched once only, and
\* is dequeued whenever a loop thread is about to load the queue.
C1_AtMostOnceDispatch ==
    \A j \in Jobs :
        /\ dispatched[j] <= 1
        /\ \A c \in Callers :
              (loopPc[c] = "load" /\ lock = c /\ dispatched[j] >= 1)
                  => workflow_status[j] = "dequeued"

\* (priority, created_on) of a is not after that of b
KeyNotAfter(a, b) ==
    \/ priority[a] < priority[b]
    \/ priority[a] = priority[b] /\ created_on[a] <= created_on[b]

SortedByKey(s) == \A a, b \in DOMAIN s : a < b => KeyNotAfter(s[a], s[b])

\* C2: the queue a tick builds holds exactly the enqueued jobs, sorted by
\* (priority ascending, created_on ascending); the jobs are evaluated in that
\* order and dispatch is attempted in that order.
C2_Ordering ==
    [][/\ (queue' # queue /\ queue' # <<>>) =>
              /\ Range(queue') = get_all_queued_jobs
              /\ Len(queue') = Cardinality(get_all_queued_jobs)
       /\ SortedByKey(queue')
       /\ SortedByKey(attempted')
       /\ idx' # idx => (idx' = idx + 1 \/ idx' \in {0, 1})
       /\ Len(attempted') > Len(attempted) =>
              attempted'[Len(attempted')] = queue[idx]
      ]_vars

\* C2 witness: a priority-0 job created later was evaluated and dispatched
\* before a priority-1 job created earlier, in one tick.
C2_Witness ==
    /\ Len(attempted) = 2
    /\ priority[attempted[1]] = 0
    /\ priority[attempted[2]] = 1
    /\ created_on[attempted[1]] > created_on[attempted[2]]
    /\ attempted[1] > attempted[2]

\* C3: execute_job is invoked for a job only when no dependency of the job
\* was reported unmet in this tick and the workflow_status re-read after the
\* dependency evaluation was 'enqueued'.
C3_DispatchGuard ==
    [][Len(attempted') > Len(attempted) =>
          LET job == attempted'[Len(attempted')] IN
          /\ all_met
          /\ message[job] = NoMessage
          /\ reread = "enqueued"
      ]_vars

\* C3 witness: a cancel or pause call dequeued a job whose dependencies were
\* all met before the re-read, and the tick went past it without dispatching.
C3_Witness ==
    /\ reread = "dequeued"
    /\ all_met
    /\ idx > 1
    /\ req.job = queue[idx - 1]
    /\ queue[idx - 1] \notin Range(attempted)
    /\ dispatched[queue[idx - 1]] = 0

\* job j has a parent_job dependency whose parent is in Error
HasErroredParent(j) ==
    \E k \in DOMAIN dependencies[j] :
        /\ dependencies[j][k].type = "parent_job"
        /\ status[dependencies[j][k].name] = "Error"

\* C4: when the dependency evaluation of job B finds a parent in Error, B is
\* put in the removal batch whatever its other dependencies are and the tick
\* moves on without dispatching it; when the tick ends every job marked in it
\* is dequeued; and execute_job is never invoked for a job once marked.
C4_ParentErroredShortCircuit ==
    [][/\ \A c \in Callers :
            (/\ loopPc[c] = "deps" /\ lock = c
             /\ (loopPc'[c] = "exists" \/ idx' = idx + 1)
             /\ HasErroredParent(queue[idx]))
                => /\ queue[idx] \in Range(jobs_to_dequeue')
                   /\ loopPc'[c] # "exists"
                   /\ idx' = idx + 1
       /\ \A c \in Callers :
            (loopPc[c] = "dequeue" /\ loopPc'[c] = "load")
                => \A j \in marked : workflow_status'[j] = "dequeued"
       /\ \A j \in abandoned' : dispatched'[j] = dispatched[j]
      ]_vars

\* C4 witness: a tick has ended in which job 2, with a parent in Error and a
\* gpu dependency besides, was removed from the queue without being dispatched.
C4_Witness ==
    /\ 2 \in abandoned
    /\ \E k \in DOMAIN dependencies[2] : dependencies[2][k].type = "gpu"
    /\ status[1] = "Error"
    /\ workflow_status[2] = "dequeued"
    /\ dispatched[2] = 0
    /\ status[2] = "Pending"
    /\ loopPc[1] = "load"

\* C5: no two ticks, and no tick and recovery pass, execute at the same time.
C5_MutualExclusion ==
    \A c1, c2 \in Callers :
        /\ c1 # c2 => ~(TickRunning(c1) /\ TickRunning(c2))
        /\ ~(TickRunning(c1) /\ RecoveryRunning(c2))

\* C6: over all the start() calls of the process recovery runs at most once
\* and at most one loop thread is launched.
C6_StartOnce == recoveries <= 1 /\ launched <= 1

\* C7: the iteration of restart_threads over a job whose workflow_status is
\* 'enqueued' launches no monitor, clears no status history and resumes no
\* AutoML controller.
C7_RecoveryNonDuplication ==
    [][\A c \in Callers, j \in Jobs :
          (/\ startPc[c] = "recover"
           /\ j \in pendingJobs[c]
           /\ j \notin pendingJobs'[c]
           /\ workflow_status[j] = "enqueued")
              => /\ monitors' = monitors
                 /\ cleared' = cleared
                 /\ resumed' = resumed
      ]_vars

\* C7 witness: recovery went over an AutoML job that is still enqueued and
\* left it without monitor, with its history, the controller not resumed.
C7_Witness ==
    \E j \in recovered :
        /\ automl[j]
        /\ workflow_status[j] = "enqueued"
        /\ status[j] = "Pending"
        /\ monitors[j] = 0
        /\ cleared[j] = 0
        /\ resumed = 0

\* C8: a cancel or pause call that found the job in a no-op status returns
\* 200 at once: no status write, no stop call.
C8_IdempotentCancelPause ==
    (req.pc # "idle" /\ req.job_status \in NoOpStatuses)
        => /\ req.pc = "returned"
           /\ req.code = 200
           /\ req.writes = 0
           /\ req.stops = 0

\* the timeout in minutes the job of job_info is to be held to
EffectiveTimeout(job_info) ==
    IF job_info.timeout_minutes = None THEN JOB_STATUS_TIMEOUT_MINUTES
    ELSE job_info.timeout_minutes

\* check_job_timeout has returned for a regular job with a status history
ProbeAnswered ==
    /\ probe.result # "none"
    /\ probe.job_info.job_id # None
    /\ ~probe.job_info.is_automl
    /\ probe.status_age # None

\* C9: for a running job with timeout T minutes the answer is False at
\* T*60 - 1 and at T*60 seconds and True at T*60 + 1 seconds.
C9_TimeoutBoundary ==
    (ProbeAnswered /\ probe.cur_status = "Running") =>
        LET T == EffectiveTimeout(probe.job_info) IN
        /\ probe.status_age \in {T * 60 - 1, T * 60} => probe.result = "False"
        /\ probe.status_age = T * 60 + 1 => probe.result = "True"

\* C10: the elapsed time is compared against job_info['timeout_minutes'] when
\* it is set and against the global default when it is None.
C10_PerJobOverride ==
    (ProbeAnswered /\ probe.cur_status \in {"Running", "Pending"}) =>
        /\ probe.job_info.timeout_minutes # None =>
              (probe.result = "True"
                  <=> probe.status_age > probe.job_info.timeout_minutes * 60)
        /\ probe.job_info.timeout_minutes = None =>
              (probe.result = "True"
                  <=> probe.status_age > JOB_STATUS_TIMEOUT_MINUTES * 60)

\* C11: check_job_timeout answers False, whatever the elapsed time, for a
\* regular job whose status is not Running or Pending and for an AutoML
\* recommendation whose status is not pending, running or started.
C11_TerminalNeverTimedOut ==
    probe.result # "none" =>
        /\ (~probe.job_info.is_automl
            /\ probe.cur_status \notin {"Running", "Pending"})
               => probe.result = "False"
        /\ (probe.job_info.is_automl
            /\ probe.exp_status \notin {"pending", "running", "started"})
               => probe.result = "False"

\* C11 witness: a Done job whose last status update is two hours old was
\* checked and not timed out.
C11_Witness ==
    /\ probe.result = "False"
    /\ probe.job_info.job_id # None
    /\ ~probe.job_info.is_automl
    /\ probe.cur_status = "Done"
    /\ probe.status_age = 7201

\* the calls the step has added to those of the pass
NewCalls == SubSeq(events', Len(events) + 1, Len(events'))

\* C12: terminate_timed_out_job of a regular job writes status Error and then
\* asks the executor to stop the unit of the job id; when the stop fails the
\* status stays Error and the job is not added to terminated_jobs.
C12_RegularTermination ==
    [][(/\ tracker.pc = "terminate"
        /\ tracker'.pc = "check"
        /\ ~Head(tracker.todo).is_automl
        /\ NewCalls # <<>>) =>
           LET j == Head(tracker.todo).job_id IN
           /\ Len(NewCalls) = 2
           /\ NewCalls[1] = StatusWrite(j, "Error")
           /\ NewCalls[2].op = "stop" /\ NewCalls[2].job = j /\ NewCalls[2].exp = 0
           /\ status'[j] = "Error"
           /\ NewCalls[2].ok =>
                 tracker'.terminated = Append(tracker.terminated, <<j, 0>>)
           /\ ~NewCalls[2].ok =>
                 /\ tracker'.terminated = tracker.terminated
                 /\ tracker'.checked[Len(tracker'.checked)].outcome = "not terminated"
      ]_vars

\* C12 witness: a pass has returned in which the stop of a timed-out regular
\* job failed: the job is in Error and is not in terminated_jobs.
C12_Witness ==
    /\ tracker.pc = "returned"
    /\ \E j \in Jobs :
          /\ status[j] = "Error"
          /\ \E k \in DOMAIN events : events[k] = Stop(j, 0, FALSE)
          /\ <<j, 0>> \notin Range(tracker.terminated)

\* the entry of recommendation e in the controller info ci
Recommendation(ci, e) == ci[CHOOSE k \in DOMAIN ci : ci[k].id = e]

\* C13: a saved controller info holds the timed-out recommendation with status
\* 'failure' and the timeout message; the stop of the composite unit follows
\* the save, and the bare job id is stopped only after that stop failed.
C13_AutomlTermination ==
    \A k \in DOMAIN events :
        /\ events[k].op = "save" =>
              /\ Recommendation(controller_info[events[k].job], events[k].exp).status
                    = "failure"
              /\ Recommendation(controller_info[events[k].job], events[k].exp).message
                    = TimeoutMessage
              /\ k < Len(events) =>
                    /\ events[k + 1].op = "stop"
                    /\ events[k + 1].exp = events[k].exp
        /\ (events[k].op = "stop" /\ events[k].exp = 0 /\ automl[events[k].job]) =>
              /\ k > 1
              /\ events[k - 1].op = "stop"
              /\ events[k - 1].exp # 0
              /\ ~events[k - 1].ok

\* C14: a write of the controller info of a job keeps the length and the ids of
\* the list and changes no entry but that of the recommendation terminated.
C14_SiblingsUntouched ==
    [][\A j \in Jobs :
          controller_info'[j] # controller_info[j] =>
              /\ tracker.pc = "terminate"
              /\ Len(controller_info'[j]) = Len(controller_info[j])
              /\ \A k \in DOMAIN controller_info[j] :
                    /\ controller_info'[j][k].id = controller_info[j][k].id
                    /\ controller_info[j][k].id # Head(tracker.todo).experiment_number
                          => controller_info'[j][k] = controller_info[j][k]
      ]_vars

\* C14 witness: recommendation 5 was terminated and its pending sibling 6 is
\* in the saved list as it was.
C14_Witness ==
    controller_info[1] =
        <<[id |-> 5, status |-> "error", message |-> TimeoutMessage],
          [id |-> 6, status |-> "pending", message |-> "Waiting"]>>

IsTerminated(c) == c.outcome = "terminated"

\* C16: a pass goes through every job_info of its list, in order, whatever
\* raised on the way, and returns the jobs whose termination returned True.
C16_TrackerFaultIsolation ==
    /\ tracker.pc # "idle" =>
          [k \in DOMAIN tracker.checked |-> tracker.checked[k].info] \o tracker.todo
              = tracker.infos
    /\ tracker.pc = "returned" =>
          /\ Len(tracker.checked) = Len(tracker.infos)
          /\ LET sel == SelectSeq(tracker.checked, IsTerminated) IN
             tracker.terminated =
                 [k \in DOMAIN sel |->
                     <<sel[k].info.job_id, sel[k].info.experiment_number>>]

\* C16 witness: a pass has returned in which one job raised and the job after
\* it was still checked and terminated.
C16_Witness ==
    /\ tracker.pc = "returned"
    /\ \E k \in DOMAIN tracker.checked :
          /\ k < Len(tracker.checked)
          /\ tracker.checked[k].outcome = "raised"
          /\ tracker.checked[k + 1].outcome = "terminated"
          /\ tracker.terminated # <<>>

\* s is a prefix of t
IsPrefix(s, t) == Len(s) <= Len(t) /\ SubSeq(t, 1, Len(s)) = s

\* C15: whatever happens while the loop processes one job of a tick, the tick
\* goes on: the thread lives, it stays at the job or moves to the next one,
\* and the removals decided so far are kept for the batch.
C15_LoopFaultIsolation ==
    [][\A c \in Callers :
          (lock = c /\ loopPc[c] \in {"deps", "exists", "exec"}) =>
              /\ loopPc'[c] \in {"deps", "exists", "exec", "dequeue"}
              /\ idx' \in {idx, idx + 1}
              /\ IsPrefix(jobs_to_dequeue, jobs_to_dequeue')
      ]_vars

\* C17: no job_cancel / job_pause call raises, and the code of every result
\* is one of 200, 400, 404 and 500.
C17_StructuredResult ==
    /\ req.pc # "raised"
    /\ req.pc = "returned" => req.code \in {200, 400, 404, 500}

\* the loop thread of caller c takes the step
LoopMoved(c) == loopPc'[c] # loopPc[c] \/ idx' # idx

\* job j has a parent_job dependency whose parent is neither Done nor in Error
WaitsForParent(j) ==
    \E k \in DOMAIN dependencies[j] :
        /\ dependencies[j][k].type = "parent_job"
        /\ status[dependencies[j][k].name] \notin {"Done", "Error"}

\* job j depends on parent jobs only and every one of them is Done
Released(j) ==
    /\ dependencies[j] # <<>>
    /\ \A k \in DOMAIN dependencies[j] :
          /\ dependencies[j][k].type = "parent_job"
          /\ status[dependencies[j][k].name] = "Done"

\* C19: a tick that comes to a job waiting for its parent writes a pending
\* reason on it, leaves it enqueued and does not dispatch it; a tick that
\* comes to an enqueued job whose parents are Done dispatches it, and the
\* removals the tick has decided are applied.
C19_DependencyGatingAndRelease ==
    [][\A c \in Callers :
          (lock = c /\ LoopMoved(c)) =>
              LET job == queue[idx] IN
              /\ (loopPc[c] = "deps" /\ WaitsForParent(job)) =>
                    /\ message'[job] # NoMessage
                    /\ idx' = idx + 1
                    /\ loopPc'[c] \in {"deps", "dequeue"}
                    /\ workflow_status'[job] = workflow_status[job]
                    /\ dispatched'[job] = dispatched[job]
                    /\ job \notin Range(jobs_to_dequeue')
              /\ (loopPc[c] = "deps" /\ Released(job)) => loopPc'[c] = "exists"
              /\ (loopPc[c] = "exists" /\ Released(job)
                    /\ workflow_status[job] = "enqueued") => loopPc'[c] = "exec"
              /\ (loopPc[c] = "exec" /\ Released(job)) =>
                    /\ dispatched'[job] = dispatched[job] + 1
                    /\ jobs_to_dequeue' = Append(jobs_to_dequeue, job)
              /\ (loopPc[c] = "dequeue" /\ jobs_to_dequeue # <<>>) =>
                    workflow_status'[Head(jobs_to_dequeue)] = "dequeued"
      ]_vars

\* C20: the loop writes no workflow_status while it scans the queue; each
\* removal is the write of the head of the batch, made after the last job of
\* the queue was evaluated; and the timeout tracker runs when the batch is empty.
C20_BatchedRemovals ==
    [][\A c \in Callers :
          lock = c =>
              /\ (loopPc[c] \in {"load", "deps", "exists", "exec"} /\ LoopMoved(c))
                    => workflow_status' = workflow_status
              /\ (jobs_to_dequeue # <<>> /\ jobs_to_dequeue' = Tail(jobs_to_dequeue)
                    /\ loopPc'[c] = loopPc[c]) =>
                    /\ loopPc[c] = "dequeue"
                    /\ idx > Len(queue)
                    /\ workflow_status' =
                          Dequeued(workflow_status, Head(jobs_to_dequeue))
              /\ (loopPc[c] = "dequeue" /\ loopPc'[c] = "load")
                    => jobs_to_dequeue = <<>>
      ]_vars

\* C20 witness: the loop is at the second job of the queue while the first,
\* dispatched in this tick and in the batch, is still enqueued.
C20_Witness ==
    \E c \in Callers :
        /\ lock = c
        /\ loopPc[c] = "deps"
        /\ idx = 2
        /\ jobs_to_dequeue = <<queue[1]>>
        /\ dispatched[queue[1]] = 1
        /\ workflow_status[queue[1]] = "enqueued"

\* the job_retry call returns in this step
RetryReturns == retry.pc # "returned" /\ retry'.pc = "returned"

\* the store holds after the step what it held before: no job was created
NoJobCreated ==
    /\ status' = status
    /\ workflow_status' = workflow_status
    /\ action' = action
    /\ dependencies' = dependencies

\* job n is new after the step: a copy of job j, Pending and enqueued
CreatedFrom(n, j) ==
    /\ n \in Jobs
    /\ n # j
    /\ status[n] = "absent"
    /\ status'[n] = "Pending"
    /\ workflow_status'[n] = "enqueued"
    /\ action'[n] = action[j]
    /\ automl'[n] = automl[j]
    /\ dependencies'[n] = dependencies[j]
    /\ \A k \in Jobs \ {n} : status'[k] = status[k] /\ workflow_status'[k] = workflow_status[k]

\* C18: job_retry returns 400 and creates no job exactly when the status of
\* the source job is one of the seven that forbid a retry; otherwise it
\* returns what job_run returns: with 200 a new job, a copy of the source job
\* under a fresh id, is Pending and enqueued, with 404 no job was created; and
\* the source job's status and workflow_status are never changed.
C18_RetryOnlyTerminalFailure ==
    [][RetryReturns =>
          LET j == retry'.job IN
          /\ status'[j] = status[j]
          /\ workflow_status'[j] = workflow_status[j]
          /\ retry'.job_status \in RetryBlocked <=> retry'.code = 400
          /\ retry'.code \in {400, 404} => NoJobCreated
          /\ retry'.code = 200 =>
                /\ retry'.job_status \in RetryStatuses \ RetryBlocked
                /\ CreatedFrom(retry'.new, j)
      ]_vars

\* C18 witness: the retry of job 1, in Error, has returned 200 and job 2 is
\* its copy, Pending and enqueued, while job 1 is in Error as before.
C18_Witness ==
    /\ retry.pc = "returned"
    /\ retry.code = 200
    /\ retry.job = 1
    /\ retry.new = 2
    /\ status[1] = "Error"
    /\ status[2] = "Pending"
    /\ workflow_status[2] = "enqueued"
    /\ action[2] = action[1]

\* C18 as stated: whenever the status does not forbid the retry, a new job is
\* created.
C18_RetryAlwaysCreates ==
    [][RetryReturns =>
          LET j == retry'.job IN
          /\ status'[j] = status[j]
          /\ workflow_status'[j] = workflow_status[j]
          /\ retry'.job_status \in RetryBlocked => retry'.code = 400 /\ NoJobCreated
          /\ retry'.job_status \in RetryStatuses \ RetryBlocked =>
                CreatedFrom(retry'.new, j)
      ]_vars

\* C21: a monitor of a recovered job is relaunched only in a step that has
\* deleted the status history of the job.
C21_RecoveryClearsHistory ==
    [][\A j \in Jobs :
          monitors'[j] > monitors[j] => cleared'[j] > cleared[j]
      ]_vars

\* C22: a recovery pass calls AutoMLHandler.resume at most once, whatever the
\* number of stale AutoML jobs and recommendations it goes over, and the
\* iteration over an AutoML job whose handler is found relaunches one monitor
\* per stale recommendation of the job.
C22_BrainRestartGuard ==
    [][\A c \in Callers :
          /\ (startPc[c] = "recover" /\ startPc'[c] = "recover"
                /\ automl_brain_restarted[c]) =>
                   /\ automl_brain_restarted'[c]
                   /\ pendingJobs'[c] # pendingJobs[c] => resumed' = resumed
          /\ (startPc[c] = "recover" /\ pendingJobs'[c] # pendingJobs[c]) =>
                /\ resumed' \in {resumed, resumed + 1}
                /\ resumed' = resumed + 1 => automl_brain_restarted'[c]
                /\ \A j \in pendingJobs[c] \ pendingJobs'[c] :
                      (automl[j] /\ workflow_status[j] # "enqueued") =>
                          monitors'[j] - monitors[j] \in
                             {0, Cardinality(StaleRecommendations(controller_info[j]))}
                /\ \A j \in pendingJobs[c] \ pendingJobs'[c] :
                      (automl[j] /\ automl_brain_restarted'[c]
                         /\ ~automl_brain_restarted[c]) =>
                          monitors'[j] - monitors[j] =
                             Cardinality(StaleRecommendations(controller_info[j]))
      ]_vars

\* C22 witness: one pass has gone over two stale AutoML jobs with three stale
\* recommendations between them: three monitors, one resume.
C22_Witness ==
    /\ recoveries = 1
    /\ resumed = 1
    /\ automl[1] /\ automl[2]
    /\ monitors[1] + monitors[2] = 3
    /\ recovered = {1, 2}

\* C23: a cancel or pause call that has come to poll the compute unit of a
\* Running job returns.
C23_PollTerminates == (req.pc = "running_poll") ~> (req.pc = "returned")

\* C24: a cancel or pause call on a Pending regular job writes Canceling /
\* Pausing, then removes the job from the queue, then asks for the stop of
\* the compute unit, then writes Canceled / Paused: the final status is
\* written in a state where the job is dequeued and the stop was requested.
C24_PendingCancelOrder ==
    [][(req.job_status = "Pending" /\ req.pc \in {"pending_mark", "pending_delete",
                                                 "pending_stop", "pending_final"}
          /\ req' # req /\ req'.pc # "raised") =>
          LET j == req.job IN
          /\ req.pc = "pending_mark" =>
                /\ req'.pc = "pending_delete"
                /\ status'[j] = Marking(req.op)
                /\ workflow_status' = workflow_status
          /\ req.pc = "pending_delete" =>
                /\ req'.pc = "pending_stop"
                /\ status[j] = Marking(req.op) /\ status'[j] = status[j]
                /\ workflow_status'[j] = "dequeued"
                /\ req'.stops = 0
          /\ req.pc = "pending_stop" =>
                /\ req'.pc = "pending_final"
                /\ workflow_status[j] = "dequeued"
                /\ status'[j] = Marking(req.op)
                /\ req'.stops = 1
          /\ req.pc = "pending_final" =>
                /\ req'.pc = "returned" /\ req'.code = 200
                /\ workflow_status[j] = "dequeued"
                /\ req.stops = 1
                /\ status'[j] = Final(req.op)
      ]_vars

\* C24 witness: the pause of a Pending job has returned 200 after two status
\* writes and one stop request; the job is Paused and out of the queue.
C24_Witness ==
    /\ req.pc = "returned"
    /\ req.op = "pause"
    /\ req.job_status = "Pending"
    /\ req.code = 200
    /\ req.writes = 2
    /\ req.stops = 1
    /\ status[req.job] = "Paused"
    /\ workflow_status[req.job] = "dequeued"

C26_OrphanTermination ==
    [][(/\ tracker.pc = "terminate"
        /\ tracker'.pc = "check"
        /\ ~Head(tracker.todo).is_automl
        /\ Head(tracker.todo).handler_id = None
        /\ tracker'.checked[Len(tracker'.checked)].outcome # "raised") =>
           LET j == Head(tracker.todo).job_id IN
           /\ NewCalls # <<>>
           /\ NewCalls[Len(NewCalls)].op = "stop"
           /\ NewCalls[Len(NewCalls)].job = j
           /\ NewCalls[Len(NewCalls)].ok =>
                 tracker'.terminated = Append(tracker.terminated, <<j, 0>>)
      ]_vars

\* the fields of the jobs that neither the mark nor the removal may touch
JobFields == <<status, priority, created_on, dependencies, action, automl>>

C28_SoftDispatchFailure ==
    [][\A c \in Callers :
          lock = c =>
              /\ (/\ loopPc[c] = "exec"
                  /\ LoopMoved(c)
                  /\ loopPc'[c] # "dead"
                  /\ dependencies[queue[idx]] = <<>>
                  /\ ActionPipeline(action[queue[idx]]) = "") =>
                     /\ jobs_to_dequeue' = jobs_to_dequeue
                     /\ dispatched' = dispatched
                     /\ workflow_status' = workflow_status
                     /\ idx' = idx + 1
              /\ (loopPc[c] = "dequeue" /\ loopPc'[c] = "load") =>
                     \A j \in Range(attempted) :
                        ActionPipeline(action[j]) = "" => workflow_status'[j] = "enqueued"
              /\ (loopPc[c] = "load" /\ loopPc'[c] \in {"deps", "dequeue"}) =>
                     \A j \in Jobs : workflow_status[j] = "enqueued" => j \in Range(queue')
      ]_vars

\* C28 witness: in a second tick the dispatch of job 1, whose action has no
\* pipeline, has failed again: the job is enqueued and not in the batch, while
\* job 2, dispatched in the first tick, is dequeued.
C28_Witness ==
    /\ loopPc[1] = "dequeue"
    /\ 1 \in Range(attempted)
    /\ action[1] = "convert"
    /\ workflow_status[1] = "enqueued"
    /\ jobs_to_dequeue = <<>>
    /\ dispatched[1] = 0
    /\ dispatched[2] = 1
    /\ workflow_status[2] = "dequeued"
    /\ 2 \notin Range(attempted)

\* C29: for an AutoML-bearing job, job_cancel / job_pause reach the purge of
\* the queued recommendations only after one AutoMLHandler.stop call, and a
\* call that returns from the purge step (the purge raised) returns code 200,
\* whatever AutoMLHandler.stop answered.
C29_AutomlPurgeFailureTolerated ==
    [][req.pc = "automl_purge" =>
          /\ automl[req.job]
          /\ req.stops = 1
          /\ req'.pc = "returned" => req'.code = 200
      ]_vars

\* C29 witness: a cancel of an AutoML-bearing job returned 200 from the purge
\* step: one stop call, one status write, the job still marked Canceling.
C29_Witness ==
    /\ req.pc = "returned"
    /\ req.op = "cancel"
    /\ automl[req.job]
    /\ req.code = 200
    /\ req.response = 404
    /\ req.stops = 1
    /\ req.writes = 1
    /\ status[req.job] = "Canceling"

\* C30: when an all_job_cancel call that wrote "Canceling" returns, (a) code
\* 200 comes with "Canceled" and only when every job_cancel it issued
\* returned 200, (b) a job_cancel answered with another code gives "Error"
\* and code 404, (c) all_jobs_cancel_status is not "Canceling".
C30_AllJobCancel ==
    (bulk.pc = "returned" /\ bulk.marked) =>
        /\ bulk.code = 200 =>
              /\ bulk.all_jobs_cancel_status = "Canceled"
              /\ bulk.non200 = 0
        /\ bulk.non200 > 0 =>
              /\ bulk.all_jobs_cancel_status = "Error"
              /\ bulk.code = 404
        /\ bulk.all_jobs_cancel_status # "Canceling"

\* C31: stop_inference_microservice is invoked at most once for the
\* auto-deletion request of a job, over all passes.
C31_AutoDeletionAtMostOnce ==
    \A j \in Jobs : autodel.stop_calls[j] <= 1

\* C32: a job_status_update / job_log_update call for a job id the store does
\* not hold ends with code 404, not with an exception; and a call that
\* returned 200 was for a job the store holds.
C32_CallbackNotFound ==
    callback.pc \in {"returned", "raised"} =>
        /\ status[callback.job] = "absent" =>
               callback.pc = "returned" /\ callback.code = 404
        /\ (callback.pc = "returned" /\ callback.code = 200) =>
               status[callback.job] # "absent"

\* C33: while a job_cancel / job_pause call on a Pending regular job stands
\* returned with code 200, no step of the scheduler loop invokes execute_job
\* for that job.
C33_CancelWinsOverDispatch ==
    [][\A j \in Jobs :
          (/\ req.pc = "returned"
           /\ req.job = j
           /\ req.code = 200
           /\ req.job_status = "Pending"
           /\ ~automl[j]) =>
              /\ attempted' # Append(attempted, j)
              /\ dispatched'[j] = dispatched[j]
      ]_vars

\* C34: no step sets a job whose status is Canceled or Paused to Error.
C34_CanceledStableAgainstTimeout ==
    [][\A j \in Jobs :
          status[j] \in {"Canceled", "Paused"} => status'[j] # "Error"]_vars

\* C35: when a job_cancel (job_pause) call that wrote the intermediate status
\* has returned, with any code, the status of the job is not Canceling
\* (Pausing).
C35_NoStuckIntermediate ==
    (req.pc = "returned" /\ req.writes > 0) =>
        status[req.job] # Marking(req.op)

\* C36: the scheduler loop invokes execute_job only for a job whose status
\* is Pending.
C36_DispatchOnlyPending ==
    [][\A j \in Jobs :
          (attempted' = Append(attempted, j) \/ dispatched'[j] > dispatched[j])
              => status[j] = "Pending"]_vars

\* C37: the recovery launches a monitoring task only for a job the scheduler
\* loop has dispatched.
C37_NoMonitorWithoutDispatch ==
    [][\A j \in Jobs : monitors'[j] > monitors[j] => dispatched[j] > 0]_vars

\* C38: the recovery step that restarts the monitors of a stale AutoML job
\* (its handler metadata is present) also invokes AutoMLHandler.resume for the
\* handler of that job; each job is an experiment of its own.
C38_EveryControllerResumed ==
    [][\A c \in Callers, j \in Jobs :
          (/\ startPc[c] = "recover"
           /\ j \in pendingJobs[c]
           /\ j \notin pendingJobs'[c]
           /\ automl[j]
           /\ monitors'[j] > monitors[j])
              => resumed' = resumed + 1
      ]_vars

\* C39: when a loop thread, of the first or of a later Workflow.start, is
\* about to load the queue, no job for which execute_job returned True is
\* still enqueued.
C39_DispatchedThenDequeued ==
    \A c \in Callers :
        (loopPc[c] = "load" /\ lock = c) =>
            \A j \in Jobs : dispatched[j] > 0 => workflow_status[j] # "enqueued"

\* a job whose dependencies are met and stay met: none, or parents that are
\* Done
DepsStayMet(j) ==
    \A k \in DOMAIN dependencies[j] :
        /\ dependencies[j][k].type = "parent_job"
        /\ status[dependencies[j][k].name] = "Done"

\* C40: when the scan of a tick is over, every job of the queue whose
\* dependencies were found met and whose action has a pipeline has been
\* dispatched, whatever stands ahead of it in the queue; and while the loop
\* keeps ticking, an enqueued job whose dependencies stay met and whose action
\* has a pipeline is eventually dispatched.
C40_NoHeadOfLineBlocking ==
    /\ [](\A c \in Callers :
            (loopPc[c] = "dequeue" /\ lock = c) =>
                \A k \in DOMAIN queue :
                    (message[queue[k]] = NoMessage
                     /\ ActionPipeline(action[queue[k]]) # "")
                        => dispatched[queue[k]] > 0)
    /\ \A j \in Jobs :
          (/\ workflow_status[j] = "enqueued"
           /\ ActionPipeline(action[j]) # ""
           /\ DepsStayMet(j)) ~> (dispatched[j] > 0)

\* C40 witness: the scan of a tick is over; job 2, first in the queue, waits
\* for its parent and stays enqueued; job 1, behind it, has been dispatched
\* in the same tick.
C40_Witness ==
    /\ loopPc[1] = "dequeue"
    /\ lock = 1
    /\ queue = <<2, 1>>
    /\ message[2] # NoMessage
    /\ dispatched[2] = 0
    /\ workflow_status[2] = "enqueued"
    /\ attempted = <<1>>
    /\ dispatched[1] = 1

====
